---------------------------- MODULE Spec2Model ----------------------------
(***************************************************************************)
(* Model of the localization resolver of the jscontact crate               *)
(* (src/src/card.rs): Card::add_localization, Card::get_available_languages*)
(* and Card::get_localized with its per-property patchers localize_name,   *)
(* localize_titles, localize_addresses, localize_nicknames,                *)
(* localize_personal_info, localize_notes and localize_keywords.           *)
(*                                                                         *)
(* Representation.                                                         *)
(*   - A Rust String that the code takes apart (a localization path, an    *)
(*     entry key, a JSON object key) is a sequence of one-character        *)
(*     strings, so str::replace, str::split, str::starts_with and          *)
(*     str::parse are computed character by character.                     *)
(*   - A Rust String that the code only stores (a leaf value, a language   *)
(*     tag, an enum variant's JSON name) is a TLA+ string.                 *)
(*   - Option<T>: None is <<>>, Some(x) is <<x>>.                          *)
(*   - HashMap<String, T>: a function from keys to T.  Vec<T>: a sequence. *)
(*   - serde_json::Value: a record tagged by t (null, bool, num, str, arr, *)
(*     obj).                                                               *)
(***************************************************************************)
EXTENDS Integers, Sequences, FiniteSets, TLC

VARIABLES this, pc, language, card, remaining, result, adds, resource,
          calendar

vars == <<this, pc, language, card, remaining, result, adds, resource,
          calendar>>

---------------------------------------------------------------------------
(* Option<T> *)

None == <<>>

Some(x) == <<x>>

---------------------------------------------------------------------------
(* The string literals of card.rs, as character sequences. *)

Lit ==
  [
    name |-> <<"n","a","m","e">>,
    titles |-> <<"t","i","t","l","e","s">>,
    addresses |-> <<"a","d","d","r","e","s","s","e","s">>,
    nicknames |-> <<"n","i","c","k","n","a","m","e","s">>,
    personalInfo |-> <<"p","e","r","s","o","n","a","l","I","n","f","o">>,
    notes |-> <<"n","o","t","e","s">>,
    keywords |-> <<"k","e","y","w","o","r","d","s">>,
    components |-> <<"c","o","m","p","o","n","e","n","t","s">>,
    full |-> <<"f","u","l","l">>,
    phoneticSystem |-> <<"p","h","o","n","e","t","i","c","S","y","s","t","e","m">>,
    phoneticScript |-> <<"p","h","o","n","e","t","i","c","S","c","r","i","p","t">>,
    value |-> <<"v","a","l","u","e">>,
    phonetic |-> <<"p","h","o","n","e","t","i","c">>,
    kind |-> <<"k","i","n","d">>,
    organizationId |-> <<"o","r","g","a","n","i","z","a","t","i","o","n","I","d">>,
    countryCode |-> <<"c","o","u","n","t","r","y","C","o","d","e">>,
    coordinates |-> <<"c","o","o","r","d","i","n","a","t","e","s">>,
    timeZone |-> <<"t","i","m","e","Z","o","n","e">>,
    contexts |-> <<"c","o","n","t","e","x","t","s">>,
    note |-> <<"n","o","t","e">>,
    created |-> <<"c","r","e","a","t","e","d">>,
    author |-> <<"a","u","t","h","o","r">>,
    isOrdered |-> <<"i","s","O","r","d","e","r","e","d">>,
    defaultSeparator |-> <<"d","e","f","a","u","l","t","S","e","p","a","r","a","t","o","r">>,
    sortAs |-> <<"s","o","r","t","A","s">>,
    pref |-> <<"p","r","e","f">>,
    level |-> <<"l","e","v","e","l">>,
    listAs |-> <<"l","i","s","t","A","s">>,
    label |-> <<"l","a","b","e","l">>,
    uri |-> <<"u","r","i">>,
    name_slash |-> <<"n","a","m","e","/">>,
    titles_slash |-> <<"t","i","t","l","e","s","/">>,
    addresses_slash |-> <<"a","d","d","r","e","s","s","e","s","/">>,
    components_slash |-> <<"c","o","m","p","o","n","e","n","t","s","/">>,
    slash |-> <<"/">>,
    private |-> <<"p","r","i","v","a","t","e">>,
    work |-> <<"w","o","r","k">>,
    billing |-> <<"b","i","l","l","i","n","g">>,
    delivery |-> <<"d","e","l","i","v","e","r","y">>,
    media |-> <<"m","e","d","i","a">>,
    links |-> <<"l","i","n","k","s">>,
    directories |-> <<"d","i","r","e","c","t","o","r","i","e","s">>,
    calendars |-> <<"c","a","l","e","n","d","a","r","s">>,
    schedulingAddresses |-> <<"s","c","h","e","d","u","l","i","n","g","A","d","d","r","e","s","s","e","s">>,
    mediaType |-> <<"m","e","d","i","a","T","y","p","e">>
  ]

---------------------------------------------------------------------------
(* The str methods the patchers use. *)

(* str::starts_with *)
starts_with(s, p) == Len(p) <= Len(s) /\ SubSeq(s, 1, Len(p)) = p

(* str::replace(pat, ""): every non-overlapping match of pat, left to     *)
(* right, is removed.  An empty pattern inserts the (empty) replacement   *)
(* between the characters and so changes nothing.                         *)
RECURSIVE replace(_, _)
replace(s, pat) ==
  IF Len(pat) = 0 \/ Len(s) < Len(pat) THEN s
  ELSE IF starts_with(s, pat) THEN replace(SubSeq(s, Len(pat) + 1, Len(s)), pat)
  ELSE <<Head(s)>> \o replace(Tail(s), pat)

(* s.split("/").collect::<Vec<&str>>().first(): the characters before the *)
(* first '/'.  split always yields at least one piece, so first() is      *)
(* never None.                                                            *)
RECURSIVE split_first(_)
split_first(s) ==
  IF Len(s) = 0 \/ Head(s) = "/" THEN <<>>
  ELSE <<Head(s)>> \o split_first(Tail(s))

(* remove_first: drops the first character, if any. *)
remove_first(s) == IF Len(s) = 0 THEN s ELSE Tail(s)

DigitValue ==
  [c \in {"0", "1", "2", "3", "4", "5", "6", "7", "8", "9"} |->
     CASE c = "0" -> 0 [] c = "1" -> 1 [] c = "2" -> 2 [] c = "3" -> 3
       [] c = "4" -> 4 [] c = "5" -> 5 [] c = "6" -> 6 [] c = "7" -> 7
       [] c = "8" -> 8 [] c = "9" -> 9]

RECURSIVE digits_value(_, _)
digits_value(s, acc) ==
  IF Len(s) = 0 THEN Some(acc)
  ELSE IF Head(s) \in DOMAIN DigitValue
       THEN digits_value(Tail(s), acc * 10 + DigitValue[Head(s)])
       ELSE None

(* str::parse::<usize>(): an optional '+' and then one or more decimal    *)
(* digits; Some(n) for Ok(n), None for Err.                               *)
parse_usize(s) ==
  LET body == IF Len(s) > 0 /\ Head(s) = "+" THEN Tail(s) ELSE s
  IN  IF Len(body) = 0 THEN None ELSE digits_value(body, 0)

---------------------------------------------------------------------------
(* serde_json::Value *)

JNull == [t |-> "null"]

JBool(b) == [t |-> "bool", b |-> b]

JNum(n) == [t |-> "num", n |-> n]

JStr(s) == [t |-> "str", s |-> s]

JArr(a) == [t |-> "arr", a |-> a]

JObj(o) == [t |-> "obj", o |-> o]

---------------------------------------------------------------------------
(* serde's derived Deserialize, as serde_json::from_value computes it.    *)
(* The crate is modelled as built without the "typed" feature, so no      *)
(* struct has an @type field.  A type is described by a record tagged by  *)
(* k; a struct's fields are listed in declaration order with their JSON   *)
(* (camelCase) names.                                                     *)

TString == [k |-> "String"]

TUint == [k |-> "uint"]

TBool == [k |-> "bool"]

TEnum(variants) == [k |-> "enum", variants |-> variants]

TOption(ty) == [k |-> "Option", of |-> ty]

TVec(ty) == [k |-> "Vec", of |-> ty]

(* HashMap<String, T> *)
THashMap(ty) == [k |-> "HashMap", of |-> ty]

(* HashMap<E, T> for an enum E of unit variants with the given JSON names *)
TEnumMap(keys, ty) == [k |-> "EnumMap", keys |-> keys, of |-> ty]

TStruct(fields) == [k |-> "struct", fields |-> fields]

Field(json, field, ty) == [json |-> json, field |-> field, ty |-> ty]

(* from_value::<T>(value).ok(): Some(x) for Ok(x), None for Err.          *)
(*   - a missing Option field is None; a missing field of any other type  *)
(*     is an error; unknown keys are ignored;                             *)
(*   - null is accepted by Option only;                                   *)
(*   - a struct also deserializes from an array holding exactly one       *)
(*     element per field, in declaration order;                           *)
(*   - a unit-variant enum is modelled for its string form (the inputs    *)
(*     hold no single-key object naming a variant).                       *)
RECURSIVE from_value(_, _)
from_value(ty, v) ==
  CASE ty.k = "String" -> IF v.t = "str" THEN Some(v.s) ELSE None
    [] ty.k = "uint" -> IF v.t = "num" /\ v.n >= 0 THEN Some(v.n) ELSE None
    [] ty.k = "bool" -> IF v.t = "bool" THEN Some(v.b) ELSE None
    [] ty.k = "enum" ->
         IF v.t = "str" /\ v.s \in ty.variants THEN Some(v.s) ELSE None
    [] ty.k = "Option" ->
         IF v.t = "null" THEN Some(None)
         ELSE LET r == from_value(ty.of, v)
              IN  IF r = None THEN None ELSE Some(r)
    [] ty.k = "Vec" ->
         IF v.t # "arr" THEN None
         ELSE LET r == [i \in 1..Len(v.a) |-> from_value(ty.of, v.a[i])]
              IN  IF \E i \in 1..Len(v.a) : r[i] = None THEN None
                  ELSE Some([i \in 1..Len(v.a) |-> r[i][1]])
    [] ty.k = "HashMap" ->
         IF v.t # "obj" THEN None
         ELSE LET r == [key \in DOMAIN v.o |-> from_value(ty.of, v.o[key])]
              IN  IF \E key \in DOMAIN v.o : r[key] = None THEN None
                  ELSE Some([key \in DOMAIN v.o |-> r[key][1]])
    [] ty.k = "EnumMap" ->
         IF v.t # "obj" \/ ~(DOMAIN v.o \subseteq ty.keys) THEN None
         ELSE LET r == [key \in DOMAIN v.o |-> from_value(ty.of, v.o[key])]
              IN  IF \E key \in DOMAIN v.o : r[key] = None THEN None
                  ELSE Some([key \in DOMAIN v.o |-> r[key][1]])
    [] ty.k = "struct" ->
         LET n == Len(ty.fields)
             r == [i \in 1..n |->
                     IF v.t = "obj"
                     THEN IF ty.fields[i].json \in DOMAIN v.o
                          THEN from_value(ty.fields[i].ty, v.o[ty.fields[i].json])
                          ELSE IF ty.fields[i].ty.k = "Option" THEN Some(None)
                               ELSE None
                     ELSE from_value(ty.fields[i].ty, v.a[i])]
             names == {ty.fields[i].field : i \in 1..n}
             at(f) == CHOOSE i \in 1..n : ty.fields[i].field = f
         IN  IF v.t \notin {"obj", "arr"} THEN None
             ELSE IF v.t = "arr" /\ Len(v.a) # n THEN None
             ELSE IF \E i \in 1..n : r[i] = None THEN None
             ELSE Some([f \in names |-> r[at(f)][1]])

PhoneticSystem == {"ipa", "jyut", "piny"}

NameComponentKind ==
  {"credential", "generation", "given", "given2", "separator", "surname",
   "surname2", "title"}

TNameComponent ==
  TStruct(<<Field(Lit.value, "value", TString),
            Field(Lit.kind, "kind", TEnum(NameComponentKind)),
            Field(Lit.phonetic, "phonetic", TOption(TString))>>)

TName ==
  TStruct(<<Field(Lit.components, "components", TOption(TVec(TNameComponent))),
            Field(Lit.isOrdered, "is_ordered", TOption(TBool)),
            Field(Lit.defaultSeparator, "default_separator", TOption(TString)),
            Field(Lit.full, "full", TOption(TString)),
            Field(Lit.sortAs, "sort_as", TOption(THashMap(TString))),
            Field(Lit.phoneticScript, "phonetic_script", TOption(TString)),
            Field(Lit.phoneticSystem, "phonetic_system",
                  TOption(TEnum(PhoneticSystem)))>>)

Context == {Lit.private, Lit.work}

TNickname ==
  TStruct(<<Field(Lit.name, "name", TString),
            Field(Lit.contexts, "contexts", TOption(TEnumMap(Context, TBool))),
            Field(Lit.pref, "pref", TOption(TUint))>>)

TitleKind == {"role", "title"}

TTitle ==
  TStruct(<<Field(Lit.name, "name", TString),
            Field(Lit.kind, "kind", TOption(TEnum(TitleKind))),
            Field(Lit.organizationId, "organization_id", TOption(TString))>>)

AddressContext == {Lit.billing, Lit.delivery, Lit.private, Lit.work}

AddressComponentKind ==
  {"apartment", "block", "building", "country", "direction", "district",
   "floor", "landmark", "locality", "name", "number", "postcode",
   "postOfficeBox", "region", "room", "separator", "subdistrict"}

TAddressComponent ==
  TStruct(<<Field(Lit.value, "value", TString),
            Field(Lit.kind, "kind", TEnum(AddressComponentKind)),
            Field(Lit.phonetic, "phonetic", TOption(TString))>>)

TAddress ==
  TStruct(<<Field(Lit.components, "components",
                  TOption(TVec(TAddressComponent))),
            Field(Lit.isOrdered, "is_ordered", TOption(TBool)),
            Field(Lit.countryCode, "country_code", TOption(TString)),
            Field(Lit.coordinates, "coordinates", TOption(TString)),
            Field(Lit.timeZone, "time_zone", TOption(TString)),
            Field(Lit.contexts, "contexts",
                  TOption(TEnumMap(AddressContext, TBool))),
            Field(Lit.full, "full", TOption(TString)),
            Field(Lit.defaultSeparator, "default_separator", TOption(TString)),
            Field(Lit.pref, "pref", TOption(TUint)),
            Field(Lit.phoneticScript, "phonetic_script", TOption(TString)),
            Field(Lit.phoneticSystem, "phonetic_system",
                  TOption(TEnum(PhoneticSystem)))>>)

TAuthor ==
  TStruct(<<Field(Lit.name, "name", TOption(TString)),
            Field(Lit.uri, "uri", TOption(TString))>>)

TNote ==
  TStruct(<<Field(Lit.note, "note", TString),
            Field(Lit.created, "created", TOption(TString)),
            Field(Lit.author, "author", TOption(TAuthor))>>)

PersonalInfoKind == {"expertise", "hobby", "interest"}

PersonalInfoLevel == {"high", "medium", "low"}

TPersonalInfo ==
  TStruct(<<Field(Lit.kind, "kind", TEnum(PersonalInfoKind)),
            Field(Lit.value, "value", TString),
            Field(Lit.level, "level", TOption(TEnum(PersonalInfoLevel))),
            Field(Lit.listAs, "list_as", TOption(TUint)),
            Field(Lit.label, "label", TOption(TString))>>)

---------------------------------------------------------------------------
(* The Card and the values its patchers build. *)

(* Card::new: every optional property is None. *)
Card_new(version, uid) ==
  [card_type |-> "Card", version |-> version, uid |-> uid, created |-> None,
   kind |-> None, language |-> None, members |-> None, prod_id |-> None,
   related_to |-> None, updated |-> None, name |-> None, nicknames |-> None,
   organizations |-> None, speak_to_as |-> None, titles |-> None,
   emails |-> None, online_services |-> None, phones |-> None,
   preferred_languages |-> None, calendars |-> None,
   scheduling_addresses |-> None, localizations |-> None,
   anniversaries |-> None, addresses |-> None, crypto_keys |-> None,
   directories |-> None, links |-> None, media |-> None, keywords |-> None,
   notes |-> None, personal_info |-> None]

(* Name::default() *)
Name_default ==
  [components |-> None, is_ordered |-> None, default_separator |-> None,
   full |-> None, sort_as |-> None, phonetic_script |-> None,
   phonetic_system |-> None]

(* AddressComponent::new(kind, value) *)
AddressComponent_new(kind, value) ==
  [value |-> value, kind |-> kind, phonetic |-> None]

(* HashMap::new() *)
HashMap_new == <<>>

(* insert that keeps the entry already under the key *)
insert_if_absent(map, key, v) ==
  [x \in DOMAIN map \cup {key} |-> IF x \in DOMAIN map THEN map[x] ELSE v]

(* HashMap::insert: adds the entry, or replaces the one under the key. *)
insert(map, key, v) ==
  [x \in DOMAIN map \cup {key} |-> IF x = key THEN v ELSE map[x]]

(* The value of a patcher: Ok(()) with the scratch card as the patcher    *)
(* left it, or Err(message).  get_localized drops the scratch card on Err *)
(* (the ? of lines 269-281), so an Err carries the card it was given.     *)
Ok(c) == [card |-> c, err |-> None]

Err(c, text, args) == [card |-> c, err |-> Some([text |-> text, args |-> args])]

(* The value of a field patch: the patched struct, or an error. *)
Patched(x) == [v |-> x, err |-> None]

Invalid(x, text, args) == [v |-> x, err |-> Some([text |-> text, args |-> args])]

---------------------------------------------------------------------------
(* localize_name *)

(* name_index with an index past the end clamped to the last component *)
name_index_clamped(components, idx) ==
  IF Len(components) = 0 THEN None
  ELSE IF Len(components) <= idx THEN Some(Len(components) - 1)
  ELSE Some(idx)

(* lines 324-327: the index into the component list, None when it is out  *)
(* of bounds.                                                             *)
name_index(components, idx) ==
  IF Len(components) <= idx THEN None ELSE Some(idx)

(* lines 328-335: one field of a name component *)
name_component_set(component, key, value) ==
  IF key = Lit.value
  THEN LET str == from_value(TString, value)
       IN  IF str = None THEN Invalid(component, "Invalid value", <<>>)
           ELSE Patched([component EXCEPT !.value = str[1]])
  ELSE IF key = Lit.phonetic
  THEN Patched([component EXCEPT !.phonetic = from_value(TString, value)])
  ELSE Patched(component)

(* When card.name is None, curr_name borrows a temporary Name::default(), *)
(* which reaches the card only through line 344.  The early return of     *)
(* line 309 skips line 344, so it changes the card only when card.name is *)
(* Some (curr_name then borrows the card's own name).                     *)
localize_name(c, key0, value) ==
  IF key0 = Lit.name
  THEN Ok([c EXCEPT !.name = from_value(TName, value)])
  ELSE
    LET curr_name == IF c.name # None THEN c.name[1] ELSE Name_default
        key == replace(key0, Lit.name_slash)
    IN
    IF starts_with(key, Lit.components)
    THEN
      IF key = Lit.components
      THEN IF c.name # None
           THEN Ok([c EXCEPT !.name = Some([curr_name EXCEPT !.components =
                                     from_value(TVec(TNameComponent), value)])])
           ELSE Ok(c)
      ELSE
        LET components == IF curr_name.components # None
                          THEN curr_name.components[1] ELSE <<>>
            key1 == replace(key, Lit.components_slash)
            idx_str == split_first(key1)
            key2 == replace(key1, idx_str \o Lit.slash)
            idx == parse_usize(idx_str)
        IN
        IF idx = None THEN Err(c, "Index out of bounds", <<>>)
        ELSE IF name_index(components, idx[1]) = None
        THEN Err(c, "Index out of bounds", <<>>)
        ELSE
          LET at == name_index(components, idx[1])[1] + 1
              r == name_component_set(components[at], key2, value)
          IN  IF r.err # None THEN [card |-> c, err |-> r.err]
              ELSE Ok([c EXCEPT !.name = Some([curr_name EXCEPT !.components =
                                 Some([components EXCEPT ![at] = r.v])])])
    ELSE IF key = Lit.full
    THEN Ok([c EXCEPT !.name =
               Some([curr_name EXCEPT !.full = from_value(TString, value)])])
    ELSE IF key = Lit.phoneticSystem
    THEN Ok([c EXCEPT !.name =
               Some([curr_name EXCEPT !.phonetic_system =
                                      from_value(TEnum(PhoneticSystem), value)])])
    ELSE IF key = Lit.phoneticScript
    THEN Ok([c EXCEPT !.name =
               Some([curr_name EXCEPT !.phonetic_script =
                                      from_value(TString, value)])])
    ELSE Ok([c EXCEPT !.name = Some(curr_name)])

---------------------------------------------------------------------------
(* localize_titles *)

(* title_set with the title rebuilt from the new name alone *)
title_set_resets(title, key, value) ==
  IF key = Lit.name
  THEN LET str == from_value(TString, value)
       IN  IF str = None THEN Invalid(title, "Invalid value", <<>>)
           ELSE Patched([name |-> str[1], kind |-> None,
                         organization_id |-> None])
  ELSE IF key = Lit.kind
  THEN Patched([title EXCEPT !.kind = from_value(TEnum(TitleKind), value)])
  ELSE Patched(title)

(* lines 378-390: one field of a title *)
title_set(title, key, value) ==
  IF key = Lit.name
  THEN LET str == from_value(TString, value)
       IN  IF str = None THEN Invalid(title, "Invalid value", <<>>)
           ELSE Patched([title EXCEPT !.name = str[1]])
  ELSE IF key = Lit.kind
  THEN Patched([title EXCEPT !.kind = from_value(TEnum(TitleKind), value)])
  ELSE IF key = Lit.organizationId
  THEN LET str == from_value(TString, value)
       IN  IF str = None THEN Invalid(title, "Invalid value", <<>>)
           ELSE Patched([title EXCEPT !.organization_id = Some(str[1])])
  ELSE Patched(title)

(* localize_titles with a missing entry created empty instead of reported *)
localize_titles_lenient(c, key0, value) ==
  IF key0 = Lit.titles
  THEN Ok([c EXCEPT !.titles = from_value(THashMap(TTitle), value)])
  ELSE
    LET titles == IF c.titles # None THEN c.titles[1] ELSE HashMap_new
        key == replace(key0, Lit.titles_slash)
        idx_key == split_first(key)
        key1 == replace(key, idx_key)
        title == IF idx_key \in DOMAIN titles THEN titles[idx_key]
                 ELSE [name |-> "", kind |-> None, organization_id |-> None]
    IN
    IF Len(key1) = 0
    THEN LET whole == from_value(TTitle, value)
         IN  IF whole = None THEN Err(c, "Invalid value", <<>>)
             ELSE Ok([c EXCEPT !.titles = Some(insert(titles, idx_key, whole[1]))])
    ELSE LET r == title_set(title, remove_first(key1), value)
         IN  IF r.err # None THEN [card |-> c, err |-> r.err]
             ELSE Ok([c EXCEPT !.titles = Some(insert(titles, idx_key, r.v))])

(* lines 349-393 *)
localize_titles(c, key0, value) ==
  IF key0 = Lit.titles
  THEN Ok([c EXCEPT !.titles = from_value(THashMap(TTitle), value)])
  ELSE
    LET titles == IF c.titles # None THEN c.titles[1] ELSE HashMap_new
        key == replace(key0, Lit.titles_slash)
        idx_key == split_first(key)
        key1 == replace(key, idx_key)
    IN
    IF Len(key1) = 0
    THEN LET title == from_value(TTitle, value)
         IN  IF title = None THEN Err(c, "Invalid value", <<>>)
             ELSE Ok([c EXCEPT !.titles = Some(insert(titles, idx_key, title[1]))])
    ELSE
      IF idx_key \notin DOMAIN titles
      THEN Err(c, "titles key '{}' not found", <<idx_key>>)
      ELSE LET r == title_set(titles[idx_key], remove_first(key1), value)
           IN  IF r.err # None THEN [card |-> c, err |-> r.err]
               ELSE Ok([c EXCEPT !.titles =
                          Some([titles EXCEPT ![idx_key] = r.v])])

---------------------------------------------------------------------------
(* localize_addresses *)

(* push_default that starts again from placeholders alone *)
push_default_fresh(components, idx) ==
  IF Len(components) <= idx
  THEN [j \in 1..(idx + 1) |-> AddressComponent_new("apartment", "DEFAULT")]
  ELSE components

(* push_default with one placeholder too many *)
RECURSIVE push_default_over(_, _)
push_default_over(components, idx) ==
  IF Len(components) <= idx + 1
  THEN push_default_over(Append(components,
                                AddressComponent_new("apartment", "DEFAULT")), idx)
  ELSE components

(* lines 437-442: while components.len() <= idx, push the placeholder *)
RECURSIVE push_default(_, _)
push_default(components, idx) ==
  IF Len(components) <= idx
  THEN push_default(Append(components,
                           AddressComponent_new("apartment", "DEFAULT")), idx)
  ELSE components

(* lines 453-472: one field of an address component *)
address_component_set(component, key, value, full_key) ==
  IF key = Lit.value
  THEN LET str == from_value(TString, value)
       IN  IF str = None
           THEN Invalid(component, "Invalid value: {} for value (at {})",
                        <<value, full_key>>)
           ELSE Patched([component EXCEPT !.value = str[1]])
  ELSE IF key = Lit.kind
  THEN LET kind == from_value(TEnum(AddressComponentKind), value)
       IN  IF kind = None
           THEN Invalid(component, "Invalid value: {} for kind (at {})",
                        <<value, full_key>>)
           ELSE Patched([component EXCEPT !.kind = kind[1]])
  ELSE IF key = Lit.phonetic
  THEN Patched([component EXCEPT !.phonetic = from_value(TString, value)])
  ELSE Patched(component)

(* lines 423-473: a path below components/ of one address *)
address_components_set(address, key, value, full_key) ==
  LET components == IF address.components # None
                    THEN address.components[1] ELSE <<>>
      key1 == replace(key, Lit.components_slash)
      idx_str == split_first(key1)
      key2 == remove_first(replace(key1, idx_str))
      idx == parse_usize(idx_str)
  IN
  IF idx = None THEN Invalid(address, "Index out of bounds", <<>>)
  ELSE
    LET extended == push_default(components, idx[1])
        at == idx[1] + 1
    IN
    IF Len(key2) = 0
    THEN LET component == from_value(TAddressComponent, value)
         IN  IF component = None THEN Invalid(address, "Invalid value", <<>>)
             ELSE Patched([address EXCEPT !.components =
                             Some([extended EXCEPT ![at] = component[1]])])
    ELSE LET r == address_component_set(extended[at], key2, value, full_key)
         IN  IF r.err # None THEN [v |-> address, err |-> r.err]
             ELSE Patched([address EXCEPT !.components =
                             Some([extended EXCEPT ![at] = r.v])])

(* lines 474-483: one scalar field of an address *)
address_set(address, key, value) ==
  IF key = Lit.full
  THEN [address EXCEPT !.full = from_value(TString, value)]
  ELSE IF key = Lit.countryCode
  THEN [address EXCEPT !.country_code = from_value(TString, value)]
  ELSE IF key = Lit.coordinates
  THEN [address EXCEPT !.coordinates = from_value(TString, value)]
  ELSE IF key = Lit.timeZone
  THEN [address EXCEPT !.time_zone = from_value(TString, value)]
  ELSE IF key = Lit.contexts
  THEN [address EXCEPT !.contexts =
                       from_value(TEnumMap(AddressContext, TBool), value)]
  ELSE address

(* The entry is fetched (line 414) before the rest of the path is looked  *)
(* at, so every path below addresses/ needs the entry to exist, the       *)
(* whole-entry path of lines 484-488 included.                            *)
localize_addresses(c, full_key, value) ==
  IF full_key = Lit.addresses
  THEN Ok([c EXCEPT !.addresses = from_value(THashMap(TAddress), value)])
  ELSE
    LET key0 == replace(full_key, Lit.addresses_slash)
        addresses == IF c.addresses # None THEN c.addresses[1] ELSE HashMap_new
        idx_key == split_first(key0)
        key == remove_first(replace(key0, idx_key))
    IN
    IF idx_key \notin DOMAIN addresses
    THEN Err(c, "addresses key '{}' not found", <<idx_key>>)
    ELSE
      LET address == addresses[idx_key]
      IN
      IF starts_with(key, Lit.components)
      THEN
        IF key = Lit.components
        THEN Ok([c EXCEPT !.addresses =
                   Some([addresses EXCEPT ![idx_key] =
                           [address EXCEPT !.components =
                              from_value(TVec(TAddressComponent), value)]])])
        ELSE LET r == address_components_set(address, key, value, full_key)
             IN  IF r.err # None THEN [card |-> c, err |-> r.err]
                 ELSE Ok([c EXCEPT !.addresses =
                            Some([addresses EXCEPT ![idx_key] = r.v])])
      ELSE IF Len(key) = 0
      THEN LET addr == from_value(TAddress, value)
           IN  IF addr = None THEN Err(c, "Invalid value", <<>>)
               ELSE Ok([c EXCEPT !.addresses =
                          Some(insert(addresses, idx_key, addr[1]))])
      ELSE Ok([c EXCEPT !.addresses =
                 Some([addresses EXCEPT ![idx_key] =
                         address_set(address, key, value)])])

---------------------------------------------------------------------------
(* localize_nicknames *)

(* lines 534-539: one field of a nickname *)
nickname_set(nick, key, value) ==
  IF key = Lit.name
  THEN LET str == from_value(TString, value)
       IN  IF str = None THEN Invalid(nick, "Invalid value", <<>>)
           ELSE Patched([nick EXCEPT !.name = str[1]])
  ELSE Patched(nick)

localize_nicknames(c, key0, value) ==
  IF key0 = Lit.nicknames
  THEN Ok([c EXCEPT !.nicknames = from_value(THashMap(TNickname), value)])
  ELSE
    LET nicknames == IF c.nicknames # None THEN c.nicknames[1] ELSE HashMap_new
        key == replace(key0, Lit.nicknames)
    IN
    IF Len(key) = 0
    THEN LET nicks == from_value(THashMap(TNickname), value)
         IN  IF nicks = None THEN Err(c, "Invalid value", <<>>)
             ELSE Ok([c EXCEPT !.nicknames = nicks])
    ELSE
      LET key1 == remove_first(key)
          idx_key == split_first(key1)
          key2 == replace(key1, idx_key)
      IN
      IF Len(key2) = 0
      THEN LET nick == from_value(TNickname, value)
           IN  IF nick = None THEN Err(c, "Invalid value", <<>>)
               ELSE Ok([c EXCEPT !.nicknames =
                          Some(insert(nicknames, idx_key, nick[1]))])
      ELSE
        IF idx_key \notin DOMAIN nicknames
        THEN Err(c, "nicknames key '{}' not found", <<idx_key>>)
        ELSE LET r == nickname_set(nicknames[idx_key], remove_first(key2), value)
             IN  IF r.err # None THEN [card |-> c, err |-> r.err]
                 ELSE Ok([c EXCEPT !.nicknames =
                            Some([nicknames EXCEPT ![idx_key] = r.v])])

---------------------------------------------------------------------------
(* localize_personal_info *)

(* lines 584-594: one field of a personal information *)
personal_info_set(personal_info, key, value) ==
  IF key = Lit.value
  THEN LET str == from_value(TString, value)
       IN  IF str = None THEN Invalid(personal_info, "Invalid value", <<>>)
           ELSE Patched([personal_info EXCEPT !.value = str[1]])
  ELSE IF key = Lit.kind
  THEN LET kind == from_value(TEnum(PersonalInfoKind), value)
       IN  IF kind = None THEN Invalid(personal_info, "Invalid value", <<>>)
           ELSE Patched([personal_info EXCEPT !.kind = kind[1]])
  ELSE Patched(personal_info)

localize_personal_info(c, key0, value) ==
  IF key0 = Lit.personalInfo
  THEN Ok([c EXCEPT !.personal_info =
                    from_value(THashMap(TPersonalInfo), value)])
  ELSE
    LET personal_infos == IF c.personal_info # None
                          THEN c.personal_info[1] ELSE HashMap_new
        key == replace(key0, Lit.personalInfo)
    IN
    IF Len(key) = 0
    THEN LET personal_infos_map == from_value(THashMap(TPersonalInfo), value)
         IN  IF personal_infos_map = None THEN Err(c, "Invalid value", <<>>)
             ELSE Ok([c EXCEPT !.personal_info = personal_infos_map])
    ELSE
      LET key1 == remove_first(key)
          idx_key == split_first(key1)
          key2 == replace(key1, idx_key)
      IN
      IF Len(key2) = 0
      THEN LET personal_info == from_value(TPersonalInfo, value)
           IN  IF personal_info = None THEN Err(c, "Invalid value", <<>>)
               ELSE Ok([c EXCEPT !.personal_info =
                          Some(insert(personal_infos, idx_key, personal_info[1]))])
      ELSE
        IF idx_key \notin DOMAIN personal_infos
        THEN Err(c, "personalInfo key '{}' not found", <<idx_key>>)
        ELSE LET r == personal_info_set(personal_infos[idx_key],
                                        remove_first(key2), value)
             IN  IF r.err # None THEN [card |-> c, err |-> r.err]
                 ELSE Ok([c EXCEPT !.personal_info =
                            Some([personal_infos EXCEPT ![idx_key] = r.v])])

---------------------------------------------------------------------------
(* localize_notes *)

(* lines 637-649: one field of a note *)
(* note_set with a created that must deserialize *)
note_set_created_strict(note, key, value) ==
  IF key = Lit.note
  THEN LET str == from_value(TString, value)
       IN  IF str = None THEN Invalid(note, "Invalid value", <<>>)
           ELSE Patched([note EXCEPT !.note = str[1]])
  ELSE IF key = Lit.created
  THEN LET created == from_value(TString, value)
       IN  IF created = None THEN Invalid(note, "Invalid value", <<>>)
           ELSE Patched([note EXCEPT !.created = created])
  ELSE IF key = Lit.author
  THEN LET author == from_value(TOption(TAuthor), value)
       IN  IF author = None THEN Invalid(note, "Invalid value", <<>>)
           ELSE Patched([note EXCEPT !.author = author[1]])
  ELSE Patched(note)

note_set(note, key, value) ==
  IF key = Lit.note
  THEN LET str == from_value(TString, value)
       IN  IF str = None THEN Invalid(note, "Invalid value", <<>>)
           ELSE Patched([note EXCEPT !.note = str[1]])
  ELSE IF key = Lit.created
  THEN Patched([note EXCEPT !.created = from_value(TString, value)])
  ELSE IF key = Lit.author
  THEN LET author == from_value(TOption(TAuthor), value)
       IN  IF author = None THEN Invalid(note, "Invalid value", <<>>)
           ELSE Patched([note EXCEPT !.author = author[1]])
  ELSE Patched(note)

localize_notes(c, key0, value) ==
  IF key0 = Lit.notes
  THEN Ok([c EXCEPT !.notes = from_value(THashMap(TNote), value)])
  ELSE
    LET notes == IF c.notes # None THEN c.notes[1] ELSE HashMap_new
        key == replace(key0, Lit.notes)
    IN
    IF Len(key) = 0
    THEN LET notes_map == from_value(THashMap(TNote), value)
         IN  IF notes_map = None THEN Err(c, "Invalid value", <<>>)
             ELSE Ok([c EXCEPT !.notes = notes_map])
    ELSE
      LET key1 == remove_first(key)
          idx_key == split_first(key1)
          key2 == replace(key1, idx_key)
      IN
      IF Len(key2) = 0
      THEN LET note == from_value(TNote, value)
           IN  IF note = None THEN Err(c, "Invalid value", <<>>)
               ELSE Ok([c EXCEPT !.notes = Some(insert(notes, idx_key, note[1]))])
      ELSE
        IF idx_key \notin DOMAIN notes
        THEN Err(c, "notes key '{}' not found", <<idx_key>>)
        ELSE LET r == note_set(notes[idx_key], remove_first(key2), value)
             IN  IF r.err # None THEN [card |-> c, err |-> r.err]
                 ELSE Ok([c EXCEPT !.notes = Some([notes EXCEPT ![idx_key] = r.v])])

---------------------------------------------------------------------------
(* localize_keywords *)

(* localize_keywords with a deeper path taken as one keyword to set *)
localize_keywords_deep(c, key, value) ==
  IF key = Lit.keywords
  THEN Ok([c EXCEPT !.keywords = from_value(THashMap(TBool), value)])
  ELSE LET b == from_value(TBool, value)
           keywords == IF c.keywords # None THEN c.keywords[1] ELSE HashMap_new
       IN  IF b = None THEN Err(c, "Invalid value", <<>>)
           ELSE Ok([c EXCEPT !.keywords =
                      Some(insert(keywords,
                                  remove_first(replace(key, Lit.keywords)),
                                  b[1]))])

(* localize_keywords with the override merged into the base keywords *)
localize_keywords_merges(c, key, value) ==
  IF key = Lit.keywords
  THEN LET new == from_value(THashMap(TBool), value)
       IN  IF new = None \/ c.keywords = None
           THEN Ok([c EXCEPT !.keywords = new])
           ELSE Ok([c EXCEPT !.keywords = Some(new[1] @@ c.keywords[1])])
  ELSE Ok(c)

(* lines 655-661 *)
localize_keywords(c, key, value) ==
  IF key = Lit.keywords
  THEN Ok([c EXCEPT !.keywords = from_value(THashMap(TBool), value)])
  ELSE Ok(c)

---------------------------------------------------------------------------
(* Card::add_localization, Card::get_available_languages and the pieces   *)
(* of Card::get_localized.                                                *)

(* Result<Card, String> *)
ResultOk(c) == [ok |-> TRUE, card |-> c]

ResultErr(e) == [ok |-> FALSE, err |-> e]

(* Clone: a deep copy, equal to the original and sharing nothing with it *)
clone(c) == c

(* add_localization that keeps the fields of the document already stored *)
(* for the language                                                      *)
Card_add_localization_merges(self, lang, value) ==
  IF self.localizations # None
  THEN [self EXCEPT !.localizations =
          Some(insert(self.localizations[1], lang,
                      IF lang \in DOMAIN self.localizations[1]
                      THEN value @@ self.localizations[1][lang]
                      ELSE value))]
  ELSE [self EXCEPT !.localizations = Some(insert(HashMap_new, lang, value))]

(* lines 231-242 *)
Card_add_localization(self, lang, value) ==
  IF self.localizations # None
  THEN [self EXCEPT !.localizations = Some(insert(self.localizations[1], lang, value))]
  ELSE [self EXCEPT !.localizations = Some(insert(HashMap_new, lang, value))]

(* get_available_languages that stops at one language *)
Card_get_available_languages_first(self) ==
  IF self.localizations # None /\ DOMAIN self.localizations[1] # {}
  THEN {CHOOSE l \in DOMAIN self.localizations[1] : TRUE}
  ELSE {}

(* lines 245-250: the keys of the table, in no particular order *)
Card_get_available_languages(self) ==
  IF self.localizations # None THEN DOMAIN self.localizations[1] ELSE {}

(* lines 257-264: the document of the language, None when the card has no *)
(* table or the table has no such language                                *)
localized_lang(self, lang) ==
  IF self.localizations = None THEN None
  ELSE IF lang \notin DOMAIN self.localizations[1] THEN None
  ELSE Some(self.localizations[1][lang])

(* early_return with the language tag stamped on the copy *)
early_return_stamped(self, lang) ==
  ResultOk([clone(self) EXCEPT !.language = Some(lang)])

(* early_return with the copy's table cleared *)
early_return_cleared(self, lang) ==
  ResultOk([clone(self) EXCEPT !.localizations = None])

(* lines 259 and 263: return Ok(self.clone()) *)
early_return(self, lang) == ResultOk(clone(self))

(* line 266: let mut card = self.clone() *)
scratch_card(self, lang) == clone(self)

(* lines 268-282: the patcher is chosen by the prefix of the whole path;  *)
(* a path with none of the prefixes is skipped                            *)
dispatch(c, key, value) ==
  IF starts_with(key, Lit.name) THEN localize_name(c, key, value)
  ELSE IF starts_with(key, Lit.titles) THEN localize_titles(c, key, value)
  ELSE IF starts_with(key, Lit.addresses) THEN localize_addresses(c, key, value)
  ELSE IF starts_with(key, Lit.nicknames) THEN localize_nicknames(c, key, value)
  ELSE IF starts_with(key, Lit.personalInfo)
  THEN localize_personal_info(c, key, value)
  ELSE IF starts_with(key, Lit.notes) THEN localize_notes(c, key, value)
  ELSE IF starts_with(key, Lit.keywords) THEN localize_keywords(c, key, value)
  ELSE Ok(c)

(* loop_body with the patcher also working on self *)
loop_body_patches_self(self, c, key, value) ==
  LET r == dispatch(c, key, value)
  IN  [self |-> [r.card EXCEPT !.localizations = self.localizations],
       card |-> r.card, err |-> r.err]

(* loop_body with the patcher's error dropped instead of returned *)
loop_body_swallows(self, c, key, value) ==
  LET r == dispatch(c, key, value)
  IN  [self |-> self, card |-> r.card, err |-> None]

(* lines 267-283, one iteration: the patcher works on the scratch card;   *)
(* self is borrowed immutably and only read.  An Err leaves the function  *)
(* through the ? operator.                                                *)
loop_body(self, c, key, value) ==
  LET r == dispatch(c, key, value)
  IN  [self |-> self, card |-> r.card, err |-> r.err]

(* line 284 *)
loop_end(c) == ResultOk(c)

---------------------------------------------------------------------------
(* Bounds of the inputs *)

(* the longest component list of a base card *)
MaxLen == 2

(* the largest list index a path names *)
MaxIdx == 3

(* the number of add_localization calls in one behaviour *)
MaxAdds == 1

---------------------------------------------------------------------------
(* Input cards.  A base card is what Card::from_value or the caller's     *)
(* field assignments build: either a bare Card::new, or a card with every *)
(* localized property set (two entries per map, component lists of a      *)
(* given length).                                                         *)

Key ==
  [k1 |-> <<"k","1">>, k2 |-> <<"k","2">>, k3 |-> <<"k","3">>,
   kw1 |-> <<"k","w","1">>, kw2 |-> <<"k","w","2">>,
   foo |-> <<"f","o","o">>, x |-> <<"x">>, n |-> <<"n">>]

NameKinds ==
  <<"given", "surname", "title", "credential", "generation", "given2",
    "separator", "surname2">>

AddressKinds ==
  <<"region", "locality", "district", "block", "separator", "number",
    "postcode", "country">>

BaseNameComponents(n) ==
  [j \in 1..n |-> [value |-> "base", kind |-> NameKinds[((j - 1) % 8) + 1],
                   phonetic |-> Some("ph")]]

BaseAddressComponents(n) ==
  [j \in 1..n |-> [value |-> "base", kind |-> AddressKinds[((j - 1) % 8) + 1],
                   phonetic |-> Some("ph")]]

Address_default ==
  [components |-> None, is_ordered |-> None, country_code |-> None,
   coordinates |-> None, time_zone |-> None, contexts |-> None, full |-> None,
   default_separator |-> None, pref |-> None, phonetic_script |-> None,
   phonetic_system |-> None]

EmptyCard == Card_new("1.0", "my:uri")

(* a Media (kind: MediaKind), Link or Calendar (kind: Option) with a label *)
BaseResource(kind) ==
  [kind |-> kind, uri |-> "https://base", media_type |-> None,
   contexts |-> None, pref |-> None, label |-> Some("Base label")]

BaseDirectory ==
  [kind |-> Some("entry"), uri |-> "https://base", media_type |-> None,
   contexts |-> None, pref |-> None, label |-> Some("Base label"),
   list_as |-> Some(1)]

BaseSchedulingAddress ==
  [uri |-> "mailto:base", contexts |-> None, pref |-> None,
   label |-> Some("Base label")]

FullCard(n) ==
  [EmptyCard EXCEPT
     !.language = Some("jp"),
     !.created = Some("2019"),
     !.name = Some([Name_default EXCEPT
                      !.full = Some("Okubo Masahito Motohiro"),
                      !.phonetic_script = Some("Latn"),
                      !.components = Some(BaseNameComponents(n))]),
     !.titles = Some((Key.k1 :> [name |-> "Dr", kind |-> Some("role"),
                                 organization_id |-> Some("o1")])
                  @@ (Key.k2 :> [name |-> "Boss", kind |-> None,
                                 organization_id |-> None])
                  @@ (Key.n :> [name |-> "Sir", kind |-> None,
                                organization_id |-> None])),
     !.addresses = Some((Key.k1 :> [Address_default EXCEPT
                                      !.components = Some(BaseAddressComponents(n)),
                                      !.full = Some("base full"),
                                      !.country_code = Some("JP")])
                     @@ (Key.k2 :> [Address_default EXCEPT
                                      !.time_zone = Some("Asia/Tokyo")])),
     !.nicknames = Some((Key.k1 :> [name |-> "Jo", contexts |-> None,
                                    pref |-> Some(1)])
                     @@ (Key.k2 :> [name |-> "J", contexts |-> None,
                                    pref |-> None])),
     !.personal_info = Some((Key.k1 :> [kind |-> "hobby", value |-> "chess",
                                        level |-> Some("high"),
                                        list_as |-> None, label |-> Some("L")])
                         @@ (Key.k2 :> [kind |-> "interest", value |-> "go",
                                        level |-> None, list_as |-> None,
                                        label |-> None])),
     !.notes = Some((Key.k1 :> [note |-> "N", created |-> Some("2020"),
                                author |-> None])
                 @@ (Key.k2 :> [note |-> "M", created |-> None,
                                author |-> None])),
     !.keywords = Some(Key.kw1 :> TRUE),
     !.media = Some(Key.k1 :> BaseResource("photo")),
     !.links = Some(Key.k1 :> BaseResource(Some("contact"))),
     !.directories = Some(Key.k1 :> BaseDirectory),
     !.calendars = Some(Key.k1 :> BaseResource(Some("calendar"))),
     !.scheduling_addresses = Some(Key.k1 :> BaseSchedulingAddress)]

BaseCards == {EmptyCard} \cup {FullCard(n) : n \in 0..MaxLen}

---------------------------------------------------------------------------
(* Input documents: paths and override values *)

RECURSIVE Path(_)
Path(segments) ==
  IF Len(segments) = 1 THEN segments[1]
  ELSE segments[1] \o Lit.slash \o Path(Tail(segments))

DigitChars == <<"0", "1", "2", "3", "4", "5", "6", "7", "8", "9">>

RECURSIVE Decimal(_)
Decimal(n) ==
  IF n < 10 THEN <<DigitChars[n + 1]>>
  ELSE Decimal(n \div 10) \o <<DigitChars[(n % 10) + 1]>>

Val ==
  [name |-> JObj(Lit.full :> JStr("Johny")),
   name_component |-> JObj((Lit.kind :> JStr("surname")) @@ (Lit.value :> JStr("Smith"))),
   title |-> JObj(Lit.name :> JStr("Mr.")),
   component |-> JObj((Lit.kind :> JStr("postcode")) @@ (Lit.value :> JStr("100-8994"))),
   address |-> JObj((Lit.components :>
                       JArr(<<JObj((Lit.kind :> JStr("region"))
                                   @@ (Lit.value :> JStr("Tokyo")))>>))
                    @@ (Lit.isOrdered :> JBool(TRUE))),
   nickname |-> JObj(Lit.name :> JStr("Johnny")),
   personal_info |-> JObj((Lit.kind :> JStr("expertise"))
                          @@ (Lit.value :> JStr("rust"))),
   note |-> JObj(Lit.note :> JStr("hello")),
   keywords |-> JObj(Key.kw2 :> JBool(TRUE)),
   str |-> JStr("override"),
   num |-> JNum(7)]

(* a one-entry JSON object and a one-element JSON array *)
Obj1(key, v) == JObj(key :> v)

Arr1(v) == JArr(<<v>>)

(* <<path, value>> pairs, property by property *)
NameEntries ==
  {<<Lit.name, Val.name>>, <<Lit.name, Val.str>>,
   <<Path(<<Lit.name, Lit.full>>), JStr("Okubo Masahito")>>,
   <<Path(<<Lit.name, Lit.full>>), Val.num>>,
   <<Path(<<Lit.name, Lit.phoneticSystem>>), JStr("ipa")>>,
   <<Path(<<Lit.name, Lit.phoneticSystem>>), Val.num>>,
   <<Path(<<Lit.name, Lit.phoneticScript>>), Val.num>>,
   <<Path(<<Lit.name, Lit.components, Decimal(0), Lit.phonetic>>), Val.num>>,
   <<Path(<<Lit.name, Lit.components>>), Arr1(Val.name_component)>>,
   <<Path(<<Lit.name, Lit.components, Key.x, Lit.value>>), Val.str>>}
  \cup {<<Path(<<Lit.name, Lit.components, Decimal(i)>>), Val.name_component>>
          : i \in 0..MaxIdx}
  \cup {<<Path(<<Lit.name, Lit.components, Decimal(i), Lit.value>>), v>>
          : i \in 0..MaxIdx, v \in {Val.str, Val.num}}
  \cup {<<Path(<<Lit.name, Lit.components, Decimal(i), Lit.phonetic>>), Val.str>>
          : i \in 0..MaxIdx}

TitlesEntries ==
  {<<Lit.titles, Obj1(Key.k3, Val.title)>>, <<Lit.titles, Val.str>>}
  \cup {<<Path(<<Lit.titles, k>>), v>>
          : k \in {Key.k1, Key.k3}, v \in {Val.title, Val.num}}
  \cup {<<Path(<<Lit.titles, k, Lit.name>>), v>>
          : k \in {Key.k1, Key.k3}, v \in {Val.str, Val.num}}
  \cup {<<Path(<<Lit.titles, Key.n>>), Val.title>>,
        <<Path(<<Lit.titles, Key.n, Lit.name>>), Val.str>>,
        <<Path(<<Lit.titles, Key.k1, Lit.kind>>), JStr("title")>>,
        <<Path(<<Lit.titles, Key.k1, Lit.kind>>), Val.num>>,
        <<Path(<<Lit.titles, Key.k1, Lit.organizationId>>), Val.str>>}

AddressesEntries ==
  {<<Lit.addresses, Obj1(Key.k3, Val.address)>>, <<Lit.addresses, Val.num>>,
   <<Path(<<Lit.addresses, Key.k1>>), Val.address>>,
   <<Path(<<Lit.addresses, Key.k3>>), Val.address>>,
   <<Path(<<Lit.addresses, Key.k1, Lit.full>>), Val.str>>,
   <<Path(<<Lit.addresses, Key.k3, Lit.full>>), Val.str>>,
   <<Path(<<Lit.addresses, Key.k1, Lit.countryCode>>), JStr("FR")>>,
   <<Path(<<Lit.addresses, Key.k1, Lit.components>>), Arr1(Val.component)>>,
   <<Path(<<Lit.addresses, Key.k1, Lit.components, Key.x>>), Val.component>>,
   <<Path(<<Lit.addresses, Key.k1, Lit.components, Decimal(0), Lit.phonetic>>),
     Val.num>>,
   <<Path(<<Lit.addresses, Key.k2, Lit.timeZone>>), Val.num>>}
  \cup {<<Path(<<Lit.addresses, Key.k1, f>>), Val.num>>
          : f \in {Lit.full, Lit.countryCode, Lit.coordinates, Lit.timeZone,
                   Lit.contexts}}
  \cup {<<Path(<<Lit.addresses, k, Lit.components, Decimal(i)>>), v>>
          : k \in {Key.k1, Key.k2}, i \in 0..MaxIdx,
            v \in {Val.component, Val.str}}
  \cup {<<Path(<<Lit.addresses, k, Lit.components, Decimal(i), Lit.value>>), Val.str>>
          : k \in {Key.k1, Key.k2}, i \in 0..MaxIdx}
  \cup {<<Path(<<Lit.addresses, k, Lit.components, Decimal(i), Lit.kind>>),
          JStr("floor")>>
          : k \in {Key.k1, Key.k2}, i \in 0..MaxIdx}
  \cup {<<Path(<<Lit.addresses, Key.k1, Lit.components, Decimal(i), Lit.phonetic>>),
          Val.str>>
          : i \in 0..MaxIdx}

NicknamesEntries ==
  {<<Lit.nicknames, Obj1(Key.k3, Val.nickname)>>,
   <<Path(<<Lit.nicknames, Key.k1>>), Val.nickname>>,
   <<Path(<<Lit.nicknames, Key.k3>>), Val.nickname>>,
   <<Path(<<Lit.nicknames, Key.k3>>), Val.str>>,
   <<Path(<<Lit.nicknames, Key.k1, Lit.name>>), Val.str>>,
   <<Path(<<Lit.nicknames, Key.k3, Lit.name>>), Val.str>>,
   <<Path(<<Lit.nicknames, Key.k1, Lit.pref>>), Val.num>>}

PersonalInfoEntries ==
  {<<Lit.personalInfo, Obj1(Key.k3, Val.personal_info)>>,
   <<Path(<<Lit.personalInfo, Key.k1>>), Val.personal_info>>,
   <<Path(<<Lit.personalInfo, Key.k3>>), Val.personal_info>>,
   <<Path(<<Lit.personalInfo, Key.k1, Lit.value>>), Val.str>>,
   <<Path(<<Lit.personalInfo, Key.k1, Lit.kind>>), JStr("expertise")>>,
   <<Path(<<Lit.personalInfo, Key.k1, Lit.kind>>), Val.str>>,
   <<Path(<<Lit.personalInfo, Key.k1, Lit.level>>), JStr("low")>>,
   <<Path(<<Lit.personalInfo, Key.k1, Lit.label>>), Val.str>>}

NotesEntries ==
  {<<Lit.notes, Obj1(Key.k3, Val.note)>>,
   <<Path(<<Lit.notes, Key.k1>>), Val.note>>,
   <<Path(<<Lit.notes, Key.k3>>), Val.note>>,
   <<Path(<<Lit.notes, Key.k1, Lit.note>>), Val.str>>,
   <<Path(<<Lit.notes, Key.k1, Lit.created>>), JStr("2024")>>,
   <<Path(<<Lit.notes, Key.k1, Lit.created>>), Val.num>>,
   <<Path(<<Lit.notes, Key.k3, Lit.note>>), Val.str>>}

KeywordsEntries ==
  {<<Lit.keywords, Val.keywords>>, <<Lit.keywords, Val.str>>,
   <<Path(<<Lit.keywords, Key.foo>>), JBool(TRUE)>>}

(* the properties get_localized has no patcher for: path, Card field and  *)
(* the JSON name of a kind of the entry type (none for SchedulingAddress) *)
ResourceProperties ==
  {[path |-> Lit.media, field |-> "media", kind |-> Some("logo")],
   [path |-> Lit.links, field |-> "links", kind |-> Some("contact")],
   [path |-> Lit.directories, field |-> "directories",
    kind |-> Some("directory")],
   [path |-> Lit.calendars, field |-> "calendars", kind |-> Some("freeBusy")],
   [path |-> Lit.schedulingAddresses, field |-> "scheduling_addresses",
    kind |-> None]}

(* an entry of the property, without a label *)
ResourceValue(p) ==
  IF p.kind = None THEN JObj(Lit.uri :> JStr("https://new"))
  ELSE JObj((Lit.kind :> JStr(p.kind[1])) @@ (Lit.uri :> JStr("https://new")))

ResourceEntries ==
  UNION {{<<p.path, Obj1(Key.k3, ResourceValue(p))>>,
          <<Path(<<p.path, Key.k1>>), ResourceValue(p)>>,
          <<Path(<<p.path, Key.k1, Lit.uri>>), JStr("https://new")>>,
          <<Path(<<p.path, Key.k1, Lit.label>>), Val.str>>}
         : p \in ResourceProperties}

(* entries whose first segment is no localized property: a property of    *)
(* the Card that is never localized (emails, phones) and names that only   *)
(* begin with the name of a localized property                             *)
ForeignEntries ==
  {<<Path(<<(<<"e","m","a","i","l","s">>), (<<"e","1">>)>>),
     JObj((<<"a","d","d","r","e","s","s">>) :> JStr("a@example.com"))>>,
   <<(<<"p","h","o","n","e","s">>), Val.str>>,
   <<Path(<<Lit.name \o <<"X">>, Lit.full>>), JStr("Okubo Masahito")>>,
   <<Lit.notes \o <<"O","l","d">>, Val.note>>,
   <<Lit.notes \o <<"O","l","d">>, Val.str>>}

Entries ==
  NameEntries \cup TitlesEntries \cup AddressesEntries \cup NicknamesEntries
  \cup PersonalInfoEntries \cup NotesEntries \cup KeywordsEntries
  \cup ResourceEntries \cup ForeignEntries

(* the document holding the given <<path, value>> pairs (distinct paths) *)
Document(pairs) ==
  [key \in {e[1] : e \in pairs} |->
     (CHOOSE e \in pairs : e[1] = key)[2]]

(* Documents of several entries: the document of test_localizations,      *)
(* documents in which one entry fails beside entries that apply, and      *)
(* documents that write an entry and one field of the same entry.         *)
MultiDocuments ==
  {Document({<<Path(<<Lit.titles, Key.k3>>), Val.title>>,
             <<Path(<<Lit.name, Lit.full>>), JStr("Okubo Masahito")>>,
             <<Path(<<Lit.nicknames, Key.k3>>), Val.nickname>>,
             <<Path(<<Lit.addresses, Key.k1>>), Val.address>>}),
   Document({<<Path(<<Lit.name, Lit.full>>), JStr("Okubo Masahito")>>,
             <<Lit.keywords, Val.keywords>>,
             <<Path(<<Lit.titles, Key.k3, Lit.name>>), Val.str>>}),
   Document({<<Path(<<Lit.notes, Key.k1, Lit.note>>), Val.str>>,
             <<Path(<<Lit.name, Lit.components, Decimal(MaxIdx), Lit.value>>),
               Val.str>>}),
   Document({<<Lit.titles, Obj1(Key.k3, Val.title)>>,
             <<Lit.titles \o Key.x, Val.title>>}),
   Document({<<Path(<<Lit.titles, Key.k3>>), Val.title>>,
             <<Path(<<Lit.titles, Key.k3, Lit.name>>), Val.str>>}),
   Document({<<Path(<<Lit.nicknames, Key.k3>>), Val.nickname>>,
             <<Path(<<Lit.nicknames, Key.k3, Lit.name>>), Val.str>>}),
   Document({<<Path(<<Lit.personalInfo, Key.k3>>), Val.personal_info>>,
             <<Path(<<Lit.personalInfo, Key.k3, Lit.value>>), Val.str>>}),
   Document({<<Path(<<Lit.notes, Key.k3>>), Val.note>>,
             <<Path(<<Lit.notes, Key.k3, Lit.note>>), Val.str>>}),
   Document({<<Lit.titles, Obj1(Key.k3, Val.title)>>,
             <<Path(<<Lit.titles, Key.k1, Lit.name>>), Val.str>>})}

(* Documents that address every index 0..n-1 of the component list of    *)
(* the address k, as test_localizations_addresses_path_object_3_invalid   *)
(* (one whole component per index) and ..._4_invalid (one kind and one    *)
(* value per index) do.                                                   *)
IndexValues == <<"v0", "v1", "v2", "v3", "v4", "v5", "v6", "v7">>

IndexKind(i) == AddressKinds[((i + 1) % 8) + 1]

IndexValue(i) == IndexValues[(i % 8) + 1]

ComponentOverride(i) ==
  JObj((Lit.kind :> JStr(IndexKind(i))) @@ (Lit.value :> JStr(IndexValue(i))))

WholePerIndex(k, n) ==
  Document({<<Path(<<Lit.addresses, k, Lit.components, Decimal(i)>>),
              ComponentOverride(i)>> : i \in 0..(n - 1)})

FieldPerIndex(k, n) ==
  Document({<<Path(<<Lit.addresses, k, Lit.components, Decimal(i), Lit.kind>>),
              JStr(IndexKind(i))>> : i \in 0..(n - 1)}
           \cup
           {<<Path(<<Lit.addresses, k, Lit.components, Decimal(i), Lit.value>>),
              JStr(IndexValue(i))>> : i \in 0..(n - 1)})

PerIndexDocuments ==
  {WholePerIndex(Key.k1, MaxLen + 1), FieldPerIndex(Key.k1, MaxLen + 1),
   WholePerIndex(Key.k2, 2)}

Documents ==
  {Document({e}) : e \in Entries} \cup MultiDocuments \cup PerIndexDocuments

(* the documents add_localization is called with *)
AddDocuments ==
  {Document({<<Path(<<Lit.name, Lit.full>>), JStr("Okubo Masahito")>>}),
   Document({<<Path(<<Lit.keywords, Key.foo>>), JBool(TRUE)>>,
             <<Lit.keywords, Val.keywords>>})}

Languages == {"en", "fr"}

---------------------------------------------------------------------------
(* The state machine.                                                     *)
(*   this      the caller's Card                                          *)
(*   pc        "idle", or the position of a get_localized call: "loop"    *)
(*             (inside the for loop of line 267), "done" (returned)       *)
(*   language  the argument of the call in progress                       *)
(*   card      the scratch card of the call (line 266), None outside      *)
(*   remaining the paths of the document the loop has not yet visited     *)
(*   result    the returned Result<Card, String>, None before the return  *)
(*   adds      the number of add_localization calls so far                *)
(*   resource  the Resource a conversion is given, None when there is     *)
(*             none (always, in Spec)                                     *)
(*   calendar  the Calendar a conversion or Calendar::new built, None     *)
(*             before                                                     *)

Init ==
  /\ \E base \in BaseCards :
       \/ this = base
       \/ \E d \in Documents :
            this = [base EXCEPT !.localizations = Some("en" :> d)]
  /\ pc = "idle"
  /\ language = None
  /\ card = None
  /\ remaining = {}
  /\ result = None
  /\ adds = 0
  /\ resource = None
  /\ calendar = None

add_localization ==
  /\ pc = "idle"
  /\ adds < MaxAdds
  /\ \E lang \in Languages, value \in AddDocuments :
       this' = Card_add_localization(this, lang, value)
  /\ adds' = adds + 1
  /\ UNCHANGED <<pc, language, card, remaining, result, resource, calendar>>

(* the call, up to the return of line 259 or 263 or to the loop *)
get_localized ==
  /\ pc = "idle"
  /\ \E lang \in Languages :
       /\ language' = Some(lang)
       /\ IF localized_lang(this, lang) = None
          THEN /\ pc' = "done"
               /\ result' = Some(early_return(this, lang))
               /\ UNCHANGED <<card, remaining>>
          ELSE /\ pc' = "loop"
               /\ card' = Some(scratch_card(this, lang))
               /\ remaining' = DOMAIN localized_lang(this, lang)[1]
               /\ UNCHANGED result
  /\ UNCHANGED <<this, adds, resource, calendar>>

(* one iteration of the loop; HashMap::iter visits the entries in an      *)
(* unspecified order                                                      *)
get_localized_iteration ==
  /\ pc = "loop"
  /\ \E key \in remaining :
       LET r == loop_body(this, card[1], key,
                          localized_lang(this, language[1])[1][key])
       IN  /\ this' = r.self
           /\ remaining' = remaining \ {key}
           /\ IF r.err # None
              THEN /\ pc' = "done"
                   /\ result' = Some(ResultErr(r.err[1]))
                   /\ card' = None
              ELSE /\ pc' = "loop"
                   /\ card' = Some(r.card)
                   /\ UNCHANGED result
  /\ UNCHANGED <<language, adds, resource, calendar>>

(* line 284: the loop is over *)
get_localized_return ==
  /\ pc = "loop"
  /\ remaining = {}
  /\ pc' = "done"
  /\ result' = Some(loop_end(card[1]))
  /\ card' = None
  /\ UNCHANGED <<this, language, remaining, adds, resource, calendar>>

(* the caller drops the result *)
drop_result ==
  /\ pc = "done"
  /\ pc' = "idle"
  /\ language' = None
  /\ result' = None
  /\ remaining' = {}
  /\ UNCHANGED <<this, card, adds, resource, calendar>>

Next ==
  \/ add_localization
  \/ get_localized
  \/ get_localized_iteration
  \/ get_localized_return
  \/ drop_result

Spec == Init /\ [][Next]_vars

---------------------------------------------------------------------------
(* Properties *)

(* the document of the call in progress *)
CallDocument == localized_lang(this, language[1])[1]

(* the call in progress found a document for its language *)
HasDocument == localized_lang(this, language[1]) # None

(* the step is the loop's iteration on the entry under key *)
Visits(key) ==
  pc = "loop" /\ key \in remaining /\ remaining' = remaining \ {key}

(* the call returned Ok after visiting its one-entry document *)
ResolvedSingle(key, value) ==
  /\ pc = "done"
  /\ HasDocument
  /\ DOMAIN CallDocument = {key}
  /\ CallDocument[key] = value
  /\ result[1].ok

(* an Option<HashMap> or Option<Vec> that is None or holds nothing *)
IsEmpty(opt) == opt = None \/ DOMAIN opt[1] = {}

(* C1: no step of a get_localized call (the fast path, a loop iteration   *)
(* that applies an entry or fails, the return) changes any field of the   *)
(* caller's card: only add_localization, outside a call, does.            *)
C1_NonMutation ==
  [][(pc # "idle" \/ pc' # "idle") => this' = this]_vars

(* a call returned a card that differs from the caller's card *)
C1_Witness ==
  /\ pc = "done"
  /\ result[1].ok
  /\ result[1].card.name # this.name
  /\ result[1].card.titles # this.titles

(* C2: when the card has a document for the language and the call         *)
(* succeeds, the returned card's localizations are empty and its language *)
(* is the requested one.                                                  *)
C2_ResolvedCopyStamped ==
  (pc = "done" /\ HasDocument /\ result[1].ok)
  => (IsEmpty(result[1].card.localizations)
      /\ result[1].card.language = language)

(* C3: with no table, or no document for the language, the call succeeds  *)
(* and the returned card has every property and the language tag of the   *)
(* caller's card.                                                         *)
C3_FastPath ==
  (pc = "done" /\ ~HasDocument)
  => (/\ result[1].ok
      /\ \A f \in DOMAIN this \ {"localizations"} :
           result[1].card[f] = this[f])

(* a fast path on a card that has a table, a language tag and properties *)
C3_Witness ==
  /\ pc = "done"
  /\ ~HasDocument
  /\ this.localizations # None
  /\ this.language # None
  /\ this.name # None
  /\ result[1].card.language = this.language

(* the card has documents, none of them for the language of the call *)
OtherLanguagesOnly ==
  /\ pc = "done"
  /\ this.localizations # None
  /\ DOMAIN this.localizations[1] # {}
  /\ language[1] \notin DOMAIN this.localizations[1]

(* C4 as stated: with documents for other languages only, the returned    *)
(* card has empty localizations and all its other fields equal the        *)
(* caller's.                                                              *)
C4_LocalizationsEmptied ==
  OtherLanguagesOnly
  => (/\ result[1].ok
      /\ IsEmpty(result[1].card.localizations)
      /\ \A f \in DOMAIN this \ {"localizations"} :
           result[1].card[f] = this[f])

(* C4 amended: with documents for other languages only, the returned card *)
(* equals the caller's card in every field, localizations included (the   *)
(* other languages' documents are still there).                           *)
C4_NoOpKeepsLocalizations ==
  OtherLanguagesOnly
  => (/\ result[1].ok
      /\ result[1].card.localizations = this.localizations
      /\ result[1].card = this)

C4_Witness ==
  /\ OtherLanguagesOnly
  /\ result[1].ok
  /\ ~IsEmpty(result[1].card.localizations)
  /\ this.name # None

(* C5: an iteration whose patcher reports an error ends the call with an  *)
(* Err that carries no card, whatever was applied to the scratch card     *)
(* before; the scratch card is dropped.                                   *)
C5_AbortOnError ==
  [][\A key \in remaining :
       (Visits(key) /\ dispatch(card[1], key, CallDocument[key]).err # None)
       => (/\ pc' = "done"
           /\ result' # None
           /\ ~result'[1].ok
           /\ DOMAIN result'[1] = {"ok", "err"}
           /\ result'[1].err = dispatch(card[1], key, CallDocument[key]).err[1]
           /\ card' = None)]_vars

(* a call failed on the last entry it visited, after applying another *)
C5_Witness ==
  /\ pc = "done"
  /\ ~result[1].ok
  /\ Cardinality(DOMAIN CallDocument) > 1
  /\ remaining = {}

---------------------------------------------------------------------------
(* Properties of single iterations.  The entry an iteration visits is     *)
(* described by its path, the scratch card before the step is card[1],    *)
(* the scratch card after it is card'[1] (card' is None when the step     *)
(* ended the call with an Err).                                           *)

(* the patchable properties whose whole value an override may replace:    *)
(* path, Card field and declared type                                     *)
WholeProperties ==
  {[path |-> Lit.name, field |-> "name", ty |-> TName],
   [path |-> Lit.titles, field |-> "titles", ty |-> THashMap(TTitle)],
   [path |-> Lit.nicknames, field |-> "nicknames", ty |-> THashMap(TNickname)],
   [path |-> Lit.addresses, field |-> "addresses", ty |-> THashMap(TAddress)],
   [path |-> Lit.personalInfo, field |-> "personal_info",
    ty |-> THashMap(TPersonalInfo)],
   [path |-> Lit.notes, field |-> "notes", ty |-> THashMap(TNote)],
   [path |-> Lit.keywords, field |-> "keywords", ty |-> THashMap(TBool)]}

(* the map properties of simple records: path, Card field, entry type *)
EntryProperties ==
  {[path |-> Lit.titles, field |-> "titles", ty |-> TTitle],
   [path |-> Lit.nicknames, field |-> "nicknames", ty |-> TNickname],
   [path |-> Lit.personalInfo, field |-> "personal_info", ty |-> TPersonalInfo],
   [path |-> Lit.notes, field |-> "notes", ty |-> TNote]}

(* the entry keys the documents use *)
EntryKeys == {Key.k1, Key.k2, Key.k3}

(* the entries of an Option<HashMap>, none when it is None *)
EntriesOf(opt) == IF opt = None THEN HashMap_new ELSE opt[1]

(* the elements of an Option<Vec>, none when it is None *)
ElementsOf(opt) == IF opt = None THEN <<>> ELSE opt[1]

(* C6: an iteration on an entry whose path is exactly a property name     *)
(* (name, titles, nicknames, addresses, personalInfo, notes, keywords)    *)
(* and whose value deserializes as the property's type sets the property  *)
(* to the deserialized value wholesale: a map then holds exactly the keys *)
(* of the override object, so nothing of the base property survives; the  *)
(* rest of the card is unchanged.                                         *)
C6_WholePropertyReplacement ==
  [][\A key \in remaining : \A p \in WholeProperties :
       (Visits(key) /\ key = p.path
        /\ from_value(p.ty, CallDocument[key]) # None)
       => (/\ pc' = "loop"
           /\ card' # None
           /\ card'[1] = [card[1] EXCEPT
                            ![p.field] = from_value(p.ty, CallDocument[key])]
           /\ p.field # "name"
              => DOMAIN card'[1][p.field][1] = DOMAIN CallDocument[key].o)]_vars

(* the base keyword kw1 is gone after the keywords were replaced by {kw2} *)
C6_Witness ==
  /\ ResolvedSingle(Lit.keywords, Val.keywords)
  /\ this.keywords # None
  /\ Key.kw1 \in DOMAIN this.keywords[1]
  /\ DOMAIN result[1].card.keywords[1] = {Key.kw2}

(* C7: an iteration on an entry with path P/k (P one of titles,           *)
(* nicknames, personalInfo, notes) and a value that deserializes as the   *)
(* entry's record type puts that record under k: inserted when the map    *)
(* has no k (the map starts empty when the property is absent), replacing *)
(* the old entry entirely otherwise.  Every other entry is unchanged and  *)
(* the map grows by at most one.                                          *)
C7_WholeEntryWrite ==
  [][\A key \in remaining : \A p \in EntryProperties : \A k \in EntryKeys :
       (Visits(key) /\ key = Path(<<p.path, k>>)
        /\ from_value(p.ty, CallDocument[key]) # None)
       => LET old == EntriesOf(card[1][p.field])
          IN  /\ pc' = "loop"
              /\ card' # None
              /\ card'[1][p.field] # None
              /\ DOMAIN card'[1][p.field][1] = DOMAIN old \cup {k}
              /\ card'[1][p.field][1][k] = from_value(p.ty, CallDocument[key])[1]
              /\ \A j \in DOMAIN old \ {k} : card'[1][p.field][1][j] = old[j]
              /\ Cardinality(DOMAIN card'[1][p.field][1])
                   <= Cardinality(DOMAIN old) + 1
              /\ \A f \in DOMAIN card[1] \ {p.field} :
                   card'[1][f] = card[1][f]]_vars

(* titles/k1 replaced the base title, whose kind and organization are     *)
(* gone; the base title under k2 is still there                           *)
C7_Witness ==
  /\ ResolvedSingle(Path(<<Lit.titles, Key.k1>>), Val.title)
  /\ this.titles # None
  /\ this.titles[1][Key.k1].kind # None
  /\ result[1].card.titles[1][Key.k1] =
       [name |-> "Mr.", kind |-> None, organization_id |-> None]
  /\ result[1].card.titles[1][Key.k2] = this.titles[1][Key.k2]

(* the leaf fields of the name the code sets: JSON name, struct field,   *)
(* type.  Each is an Option field, set to Some of the value.              *)
NameLeaves ==
  {[json |-> Lit.full, field |-> "full", ty |-> TString],
   [json |-> Lit.phoneticSystem, field |-> "phonetic_system",
    ty |-> TEnum(PhoneticSystem)],
   [json |-> Lit.phoneticScript, field |-> "phonetic_script", ty |-> TString]}

(* the leaf fields of map entries the code sets: property path, Card      *)
(* field, JSON name, struct field, type, and whether the struct field is  *)
(* an Option (set to Some of the value) or holds the value itself         *)
EntryLeaves ==
  {[path |-> Lit.titles, prop |-> "titles", json |-> Lit.name,
    field |-> "name", ty |-> TString, optional |-> FALSE],
   [path |-> Lit.titles, prop |-> "titles", json |-> Lit.kind,
    field |-> "kind", ty |-> TEnum(TitleKind), optional |-> TRUE],
   [path |-> Lit.titles, prop |-> "titles", json |-> Lit.organizationId,
    field |-> "organization_id", ty |-> TString, optional |-> TRUE],
   [path |-> Lit.nicknames, prop |-> "nicknames", json |-> Lit.name,
    field |-> "name", ty |-> TString, optional |-> FALSE],
   [path |-> Lit.notes, prop |-> "notes", json |-> Lit.note,
    field |-> "note", ty |-> TString, optional |-> FALSE],
   [path |-> Lit.notes, prop |-> "notes", json |-> Lit.created,
    field |-> "created", ty |-> TString, optional |-> TRUE],
   [path |-> Lit.personalInfo, prop |-> "personal_info", json |-> Lit.value,
    field |-> "value", ty |-> TString, optional |-> FALSE],
   [path |-> Lit.personalInfo, prop |-> "personal_info", json |-> Lit.kind,
    field |-> "kind", ty |-> TEnum(PersonalInfoKind), optional |-> FALSE],
   [path |-> Lit.addresses, prop |-> "addresses", json |-> Lit.full,
    field |-> "full", ty |-> TString, optional |-> TRUE],
   [path |-> Lit.addresses, prop |-> "addresses", json |-> Lit.countryCode,
    field |-> "country_code", ty |-> TString, optional |-> TRUE]}

(* C8: an iteration on an entry that addresses one field of the existing  *)
(* name (name/full, name/phoneticSystem, name/phoneticScript) or of an    *)
(* existing map entry k (titles/k/name, titles/k/kind,                    *)
(* titles/k/organizationId, nicknames/k/name, notes/k/note,               *)
(* notes/k/created, personalInfo/k/value, personalInfo/k/kind,            *)
(* addresses/k/full, addresses/k/countryCode), with a value of the        *)
(* field's type, overwrites exactly that field: the sibling fields, the   *)
(* other entries and the other properties are unchanged.                  *)
C8_LeafFieldMerge ==
  [][\A key \in remaining :
       /\ \A leaf \in NameLeaves :
            (Visits(key) /\ key = Path(<<Lit.name, leaf.json>>)
             /\ card[1].name # None
             /\ from_value(leaf.ty, CallDocument[key]) # None)
            => (/\ pc' = "loop"
                /\ card' # None
                /\ card'[1] =
                     [card[1] EXCEPT !.name =
                        Some([card[1].name[1] EXCEPT ![leaf.field] =
                                from_value(leaf.ty, CallDocument[key])])])
       /\ \A leaf \in EntryLeaves : \A k \in EntryKeys :
            (Visits(key) /\ key = Path(<<leaf.path, k, leaf.json>>)
             /\ k \in DOMAIN EntriesOf(card[1][leaf.prop])
             /\ from_value(leaf.ty, CallDocument[key]) # None)
            => LET old == card[1][leaf.prop][1]
                   v == from_value(leaf.ty, CallDocument[key])
               IN  /\ pc' = "loop"
                   /\ card' # None
                   /\ card'[1] =
                        [card[1] EXCEPT ![leaf.prop] =
                           Some([old EXCEPT ![k] =
                                   [old[k] EXCEPT ![leaf.field] =
                                      IF leaf.optional THEN v ELSE v[1]]])]]_vars

(* titles/k1/name overwrote the name of the base title and kept its kind  *)
(* and organization; the title under k2 is the base's                     *)
C8_Witness ==
  /\ ResolvedSingle(Path(<<Lit.titles, Key.k1, Lit.name>>), Val.str)
  /\ this.titles[1][Key.k1].name = "Dr"
  /\ result[1].card.titles[1][Key.k1] =
       [name |-> "override", kind |-> Some("role"),
        organization_id |-> Some("o1")]
  /\ result[1].card.titles[1][Key.k2] = this.titles[1][Key.k2]

(* the placeholder of lines 438-441 *)
Placeholder == [value |-> "DEFAULT", kind |-> "apartment", phonetic |-> None]

(* the fields of an address component a path may name: JSON name, struct  *)
(* field, type, Option or not                                             *)
ComponentLeaves ==
  {[json |-> Lit.value, field |-> "value", ty |-> TString, optional |-> FALSE],
   [json |-> Lit.kind, field |-> "kind", ty |-> TEnum(AddressComponentKind),
    optional |-> FALSE],
   [json |-> Lit.phonetic, field |-> "phonetic", ty |-> TString,
    optional |-> TRUE]}

(* new is old extended for an override at index i (0-based): i + 1        *)
(* elements when i is past the end of old, as many as old otherwise; the  *)
(* elements of old other than i are kept; the elements between the end of *)
(* old and i are placeholders; the element at i is at_i.                  *)
ExtendedTo(old, new, i, at_i) ==
  /\ Len(new) = IF i >= Len(old) THEN i + 1 ELSE Len(old)
  /\ \A j \in 1..Len(old) : j # i + 1 => new[j] = old[j]
  /\ \A j \in (Len(old) + 1)..i : new[j] = Placeholder
  /\ new[i + 1] = at_i

(* C9: an iteration on an entry addresses/k/components/i or               *)
(* addresses/k/components/i/<field>, with k an existing address whose     *)
(* component list has n elements and a value of the addressed type, makes *)
(* the list i + 1 long when i >= n: the elements 0..n-1 are the old ones, *)
(* n..i-1 are placeholders (kind apartment, value "DEFAULT"), and i is    *)
(* the override, or the placeholder with the one field overwritten.  When *)
(* i < n the list keeps its length and only the element i changes.        *)
C9_ComponentAutoExtend ==
  [][\A key \in remaining : \A k \in EntryKeys : \A i \in 0..MaxIdx :
       LET old == ElementsOf(card[1].addresses[1][k].components)
           new == card'[1].addresses[1][k].components[1]
           before == IF i < Len(old) THEN old[i + 1] ELSE Placeholder
           prefix == <<Lit.addresses, k, Lit.components, Decimal(i)>>
       IN
       /\ (Visits(key) /\ key = Path(prefix)
           /\ k \in DOMAIN EntriesOf(card[1].addresses)
           /\ from_value(TAddressComponent, CallDocument[key]) # None)
          => (/\ pc' = "loop"
              /\ card'[1].addresses[1][k].components # None
              /\ ExtendedTo(old, new, i,
                            from_value(TAddressComponent, CallDocument[key])[1]))
       /\ \A leaf \in ComponentLeaves :
            (Visits(key) /\ key = Path(prefix \o <<leaf.json>>)
             /\ k \in DOMAIN EntriesOf(card[1].addresses)
             /\ from_value(leaf.ty, CallDocument[key]) # None)
            => LET v == from_value(leaf.ty, CallDocument[key])
               IN  /\ pc' = "loop"
                   /\ card'[1].addresses[1][k].components # None
                   /\ ExtendedTo(old, new, i,
                                 [before EXCEPT ![leaf.field] =
                                    IF leaf.optional THEN v ELSE v[1]])]_vars

(* addresses/k1/components/<MaxIdx> on a list of one component: the list  *)
(* is MaxIdx + 1 long, its first element is the base's, the ones between  *)
(* are placeholders and the last one is the override                      *)
C9_Witness ==
  /\ ResolvedSingle(Path(<<Lit.addresses, Key.k1, Lit.components,
                           Decimal(MaxIdx)>>), Val.component)
  /\ Len(this.addresses[1][Key.k1].components[1]) = 1
  /\ LET new == result[1].card.addresses[1][Key.k1].components[1]
     IN  /\ Len(new) = MaxIdx + 1
         /\ new[1] = this.addresses[1][Key.k1].components[1][1]
         /\ \A j \in 2..MaxIdx : new[j] = Placeholder
         /\ new[MaxIdx + 1] =
              [value |-> "100-8994", kind |-> "postcode", phonetic |-> None]

(* the number of components of the card's name, 0 when the card has no    *)
(* name or the name has no component list                                 *)
NameLen(c) ==
  IF c.name = None THEN 0 ELSE Len(ElementsOf(c.name[1].components))

(* C10: an iteration on an entry name/components/i/<field> with i at or   *)
(* past the length of the name's component list (0 when the name or the   *)
(* list is absent) ends the call with the error "Index out of bounds";    *)
(* and no iteration on a path below name/components/ changes the length   *)
(* of the list.                                                           *)
C10_StrictIndexFailure ==
  [][\A key \in remaining :
       /\ \A i \in 0..MaxIdx : \A f \in {Lit.value, Lit.phonetic} :
            (Visits(key)
             /\ key = Path(<<Lit.name, Lit.components, Decimal(i), f>>)
             /\ i >= NameLen(card[1]))
            => (/\ pc' = "done"
                /\ card' = None
                /\ ~result'[1].ok
                /\ result'[1].err.text = "Index out of bounds")
       /\ (Visits(key)
           /\ starts_with(key, Path(<<Lit.name, Lit.components>>) \o Lit.slash)
           /\ card' # None)
          => NameLen(card'[1]) = NameLen(card[1])]_vars

(* name/components/1/value failed on a name of one component *)
C10_Witness ==
  /\ pc = "done"
  /\ HasDocument
  /\ DOMAIN CallDocument =
       {Path(<<Lit.name, Lit.components, Decimal(1), Lit.value>>)}
  /\ this.name # None
  /\ NameLen(this) = 1
  /\ ~result[1].ok
  /\ result[1].err.text = "Index out of bounds"

(* C11: when the document of the call is one of the per-index documents  *)
(* for an existing address k whose component list is shorter than the     *)
(* number n of indices the document addresses, the call succeeds in every *)
(* order of its entries and returns exactly n components, the one at      *)
(* index i with the kind and the value of the override for i (and nothing *)
(* else, when the override is a whole component): no "DEFAULT" remains.   *)
C11_PerIndexCommute ==
  \A k \in EntryKeys : \A n \in 1..(MaxLen + 1) :
    (/\ pc = "done"
     /\ HasDocument
     /\ CallDocument \in {WholePerIndex(k, n), FieldPerIndex(k, n)}
     /\ k \in DOMAIN EntriesOf(this.addresses)
     /\ Len(ElementsOf(this.addresses[1][k].components)) < n)
    => (/\ result[1].ok
        /\ result[1].card.addresses[1][k].components # None
        /\ LET new == result[1].card.addresses[1][k].components[1]
           IN  /\ Len(new) = n
               /\ \A i \in 0..(n - 1) :
                    /\ new[i + 1].kind = IndexKind(i)
                    /\ new[i + 1].value = IndexValue(i)
                    /\ new[i + 1].value # "DEFAULT"
                    /\ CallDocument = WholePerIndex(k, n)
                       => new[i + 1] = [value |-> IndexValue(i),
                                       kind |-> IndexKind(i),
                                       phonetic |-> None])

(* the kind-and-value document resolved on a base list of one component *)
C11_Witness ==
  /\ pc = "done"
  /\ HasDocument
  /\ CallDocument = FieldPerIndex(Key.k1, MaxLen + 1)
  /\ this.addresses # None
  /\ Len(ElementsOf(this.addresses[1][Key.k1].components)) = 1
  /\ result[1].ok
  /\ Len(result[1].card.addresses[1][Key.k1].components[1]) = MaxLen + 1

(* C12: for media, links, directories, calendars and                     *)
(* schedulingAddresses, a call whose document is one override returns a   *)
(* card in which a whole-property override replaced the map, a P/k1       *)
(* override replaced the entry k1 (the base label is gone), a P/k1/uri    *)
(* override set the uri of the entry k1 and kept its label, and a         *)
(* P/k1/label override set its label and kept its uri.                    *)
C12_ResourceOverridesApplied ==
  \A p \in ResourceProperties :
    LET base == this[p.field]
        new == result[1].card[p.field]
    IN
    /\ ResolvedSingle(p.path, Obj1(Key.k3, ResourceValue(p)))
       => (new # None /\ DOMAIN new[1] = {Key.k3})
    /\ (ResolvedSingle(Path(<<p.path, Key.k1>>), ResourceValue(p))
        /\ base # None)
       => (/\ new # None
           /\ new[1][Key.k1].uri = "https://new"
           /\ new[1][Key.k1].label = None)
    /\ (ResolvedSingle(Path(<<p.path, Key.k1, Lit.uri>>), JStr("https://new"))
        /\ base # None)
       => (/\ new # None
           /\ new[1][Key.k1].uri = "https://new"
           /\ new[1][Key.k1].label = base[1][Key.k1].label)
    /\ (ResolvedSingle(Path(<<p.path, Key.k1, Lit.label>>), Val.str)
        /\ base # None)
       => (/\ new # None
           /\ new[1][Key.k1].label = Some("override")
           /\ new[1][Key.k1].uri = base[1][Key.k1].uri)

(* C13: an iteration on an entry whose path is keywords/<anything> never  *)
(* fails and leaves the scratch card as it was; and the keywords of a     *)
(* returned card are those of the document's keywords entry when it has   *)
(* one (with a map of booleans as value), the caller's keywords           *)
(* otherwise, whatever the order of the entries.                          *)
C13_KeywordsDeepNoOp ==
  /\ [][\A key \in remaining :
          (Visits(key) /\ starts_with(key, Lit.keywords \o Lit.slash))
          => (pc' = "loop" /\ result' = None /\ card' = card)]_vars
  /\ [](( /\ pc = "done"
          /\ HasDocument
          /\ result[1].ok
          /\ Lit.keywords \in DOMAIN CallDocument
             => from_value(THashMap(TBool), CallDocument[Lit.keywords]) # None)
        => result[1].card.keywords =
             IF Lit.keywords \in DOMAIN CallDocument
             THEN Some([k \in DOMAIN CallDocument[Lit.keywords].o |->
                          CallDocument[Lit.keywords].o[k].b])
             ELSE this.keywords)

(* a document with keywords and keywords/foo resolved on a card that has  *)
(* the keyword kw1: the result has kw2 alone                              *)
C13_Witness ==
  /\ pc = "done"
  /\ HasDocument
  /\ DOMAIN CallDocument = {Lit.keywords, Path(<<Lit.keywords, Key.foo>>)}
  /\ result[1].ok
  /\ this.keywords = Some(Key.kw1 :> TRUE)
  /\ result[1].card.keywords = Some(Key.kw2 :> TRUE)

(* the properties whose patcher reports a missing entry key, with the     *)
(* message it formats                                                     *)
StrictProperties ==
  {[path |-> Lit.titles, field |-> "titles",
    text |-> "titles key '{}' not found"],
   [path |-> Lit.nicknames, field |-> "nicknames",
    text |-> "nicknames key '{}' not found"],
   [path |-> Lit.personalInfo, field |-> "personal_info",
    text |-> "personalInfo key '{}' not found"],
   [path |-> Lit.notes, field |-> "notes",
    text |-> "notes key '{}' not found"]}

(* the field names the documents use in P/k/<field> paths *)
FieldNames ==
  {Lit.name, Lit.kind, Lit.organizationId, Lit.value, Lit.note, Lit.created,
   Lit.author, Lit.level, Lit.label, Lit.listAs, Lit.pref, Lit.contexts}

(* C14: an iteration on an entry P/k/<field> (P one of titles, nicknames, *)
(* personalInfo, notes) when the scratch card's map has no entry k (or    *)
(* the property is absent) ends the call with the error                   *)
(* "P key 'k' not found", which names the property and the key; no card   *)
(* is returned, so no default entry is created.                           *)
C14_UnknownEntryKey ==
  [][\A key \in remaining : \A p \in StrictProperties :
       \A k \in EntryKeys : \A f \in FieldNames :
         (Visits(key) /\ key = Path(<<p.path, k, f>>)
          /\ k \notin DOMAIN EntriesOf(card[1][p.field]))
         => (/\ pc' = "done"
             /\ card' = None
             /\ ~result'[1].ok
             /\ result'[1].err.text = p.text
             /\ result'[1].err.args = <<k>>)]_vars

(* titles/k3/name failed on a card whose titles have no k3 *)
C14_Witness ==
  /\ pc = "done"
  /\ HasDocument
  /\ DOMAIN CallDocument = {Path(<<Lit.titles, Key.k3, Lit.name>>)}
  /\ this.titles # None
  /\ Key.k3 \notin DOMAIN this.titles[1]
  /\ ~result[1].ok
  /\ result[1].err = [text |-> "titles key '{}' not found", args |-> <<Key.k3>>]

(* C15: an iteration on an entry whose path has a segment that is not a   *)
(* decimal number after components (addresses/k/components/x with k an    *)
(* existing address, name/components/x/value) ends the call with an error *)
(* whose message holds the offending path.                                *)
C15_MalformedIndexNamed ==
  [][\A key \in remaining :
       (/\ Visits(key)
        /\ \/ key = Path(<<Lit.name, Lit.components, Key.x, Lit.value>>)
           \/ \E k \in DOMAIN EntriesOf(card[1].addresses) :
                key = Path(<<Lit.addresses, k, Lit.components, Key.x>>))
       => (/\ pc' = "done"
           /\ ~result'[1].ok
           /\ \E i \in DOMAIN result'[1].err.args :
                result'[1].err.args[i] = key)]_vars

(* C16: an iteration on an entry whose value does not deserialize as the  *)
(* type of its target (a whole property, a whole entry P/k, a whole       *)
(* component list, a whole address component) ends the call with an Err.  *)
C16_TypeMismatchFails ==
  [][\A key \in remaining :
       (/\ Visits(key)
        /\ \/ \E p \in WholeProperties :
                key = p.path /\ from_value(p.ty, CallDocument[key]) = None
           \/ \E p \in EntryProperties : \E k \in EntryKeys :
                /\ key = Path(<<p.path, k>>)
                /\ from_value(p.ty, CallDocument[key]) = None
           \/ /\ key = Path(<<Lit.name, Lit.components>>)
              /\ from_value(TVec(TNameComponent), CallDocument[key]) = None
           \/ \E k \in DOMAIN EntriesOf(card[1].addresses) :
                \/ /\ key = Path(<<Lit.addresses, k, Lit.components>>)
                   /\ from_value(TVec(TAddressComponent), CallDocument[key])
                        = None
                \/ \E i \in 0..MaxIdx :
                     /\ key = Path(<<Lit.addresses, k, Lit.components,
                                     Decimal(i)>>)
                     /\ from_value(TAddressComponent, CallDocument[key]) = None)
       => (pc' = "done" /\ result' # None /\ ~result'[1].ok)]_vars

(* the entries of the document applied to the card one after the other,  *)
(* in one fixed order of the paths                                        *)
RECURSIVE apply_in_order(_, _, _)
apply_in_order(c, document, keys) ==
  IF keys = {} THEN ResultOk(c)
  ELSE LET key == CHOOSE k \in keys : TRUE
           r == dispatch(c, key, document[key])
       IN  IF r.err # None THEN ResultErr(r.err[1])
           ELSE apply_in_order(r.card, document, keys \ {key})

(* no two paths of the document have the same first segment *)
DistinctFirstSegments(document) ==
  \A a, b \in DOMAIN document : a # b => split_first(a) # split_first(b)

(* C17: when no two paths of the document have the same first segment,    *)
(* the call has the outcome of applying the entries in one fixed order    *)
(* (the same failure or the same card, whatever order the loop took), and *)
(* a property that an entry changes when applied alone to the caller's    *)
(* card has, in the returned card, the value that entry alone gives it.   *)
C17_OrderInsensitive ==
  (pc = "done" /\ HasDocument /\ DistinctFirstSegments(CallDocument))
  => LET fixed == apply_in_order(this, CallDocument, DOMAIN CallDocument)
     IN  /\ result[1].ok = fixed.ok
         /\ result[1].ok
            => /\ result[1].card = fixed.card
               /\ \A key \in DOMAIN CallDocument :
                    \A f \in DOMAIN this :
                      LET alone == dispatch(this, key, CallDocument[key]).card
                      IN  alone[f] # this[f] => result[1].card[f] = alone[f]

(* C18: an add_localization step stores its document D under its         *)
(* language L: afterwards the card has a table, the table holds D under   *)
(* L (whatever it held under L before) and, unchanged, the documents of   *)
(* the other languages it had; no other field of the card changes.  And   *)
(* a get_localized call that finds a document works on exactly the        *)
(* entries of the document the table holds for its language.              *)
C18_AddLocalization ==
  /\ [][adds' = adds + 1
        => \E lang \in Languages : \E document \in AddDocuments :
             LET old == EntriesOf(this.localizations)
             IN  /\ this'.localizations # None
                 /\ DOMAIN this'.localizations[1] = DOMAIN old \cup {lang}
                 /\ this'.localizations[1][lang] = document
                 /\ \A l \in DOMAIN old \ {lang} :
                      this'.localizations[1][l] = old[l]
                 /\ \A f \in DOMAIN this \ {"localizations"} :
                      this'[f] = this[f]]_vars
  /\ [][(pc = "idle" /\ pc' = "loop")
        => (/\ remaining' = DOMAIN this.localizations[1][language'[1]]
            /\ card' = Some(this))]_vars
  /\ [](pc = "loop" => remaining \subseteq DOMAIN CallDocument)

(* after add_localization("fr", D) on a card that had a document for      *)
(* "en", get_localized("fr") applied D: the table has both languages    *)
C18_Witness ==
  /\ pc = "done"
  /\ adds = 1
  /\ this.localizations # None
  /\ DOMAIN this.localizations[1] = {"en", "fr"}
  /\ language = Some("fr")
  /\ this.localizations[1]["fr"] \in AddDocuments
  /\ Path(<<Lit.name, Lit.full>>) \in DOMAIN this.localizations[1]["fr"]
  /\ result[1].ok
  /\ result[1].card.name # None
  /\ result[1].card.name[1].full = Some("Okubo Masahito")

(* C19: get_available_languages gives no language on a card without a    *)
(* table; an add_localization step adds its language to what it gives     *)
(* (once, also when the language was there) and no other step changes     *)
(* it; so it always gives exactly the languages get_localized finds a     *)
(* document for.                                                          *)
C19_AvailableLanguages ==
  /\ [](this.localizations = None => Card_get_available_languages(this) = {})
  /\ [](Card_get_available_languages(this) =
          {l \in Languages : localized_lang(this, l) # None})
  /\ [][IF adds' = adds + 1
        THEN \E lang \in Languages :
               /\ localized_lang(this', lang) # None
               /\ localized_lang(this', lang)[1] \in AddDocuments
               /\ Card_get_available_languages(this') =
                    Card_get_available_languages(this) \cup {lang}
        ELSE Card_get_available_languages(this') =
               Card_get_available_languages(this)]_vars

(* a card deserialized with a document for "en", after                   *)
(* add_localization("fr", D)                                              *)
C19_Witness ==
  /\ adds = 1
  /\ pc = "idle"
  /\ Card_get_available_languages(this) = {"en", "fr"}
  /\ this.localizations[1]["fr"] \in AddDocuments
  /\ this.localizations[1]["en"] \notin AddDocuments

(* C20: a call whose document is one field override of the existing      *)
(* entry k1 returns a card in which that field of k1 has the override     *)
(* value: personalInfo/k1/kind, value, level and label, nicknames/k1/name *)
(* and pref.                                                              *)
C20_EveryFieldReached ==
  /\ (ResolvedSingle(Path(<<Lit.personalInfo, Key.k1, Lit.kind>>),
                     JStr("expertise")) /\ this.personal_info # None)
     => result[1].card.personal_info[1][Key.k1].kind = "expertise"
  /\ (ResolvedSingle(Path(<<Lit.personalInfo, Key.k1, Lit.value>>), Val.str)
      /\ this.personal_info # None)
     => result[1].card.personal_info[1][Key.k1].value = "override"
  /\ (ResolvedSingle(Path(<<Lit.personalInfo, Key.k1, Lit.level>>),
                     JStr("low")) /\ this.personal_info # None)
     => result[1].card.personal_info[1][Key.k1].level = Some("low")
  /\ (ResolvedSingle(Path(<<Lit.personalInfo, Key.k1, Lit.label>>), Val.str)
      /\ this.personal_info # None)
     => result[1].card.personal_info[1][Key.k1].label = Some("override")
  /\ (ResolvedSingle(Path(<<Lit.nicknames, Key.k1, Lit.name>>), Val.str)
      /\ this.nicknames # None)
     => result[1].card.nicknames[1][Key.k1].name = "override"
  /\ (ResolvedSingle(Path(<<Lit.nicknames, Key.k1, Lit.pref>>), Val.num)
      /\ this.nicknames # None)
     => result[1].card.nicknames[1][Key.k1].pref = Some(7)

---------------------------------------------------------------------------
(* Resource and its conversion into Calendar (src/src/resource.rs).       *)

(* the outcome of a call that panics, and the message it panics with *)
Panic == [panic |-> TRUE]

InvalidCalendarKind == "panic: Invalid CalendarKind"

(* Resource::new(uri) *)
Resource_new(uri) ==
  [kind |-> None, uri |-> uri, media_type |-> None, contexts |-> None,
   pref |-> None, label |-> None]

(* #[derive(Default)] for Resource: the empty String and None *)
Resource_default ==
  [kind |-> None, uri |-> "", media_type |-> None, contexts |-> None,
   pref |-> None, label |-> None]

(* impl From<String> for CalendarKind *)
CalendarKind_from(kind) ==
  IF kind \in {"calendar", "freeBusy"} THEN kind ELSE InvalidCalendarKind

(* From<Resource> for Calendar with an absent kind made "calendar" *)
Calendar_from_defaulting(r) ==
  [kind |-> IF r.kind = None THEN Some("calendar") ELSE r.kind,
   uri |-> r.uri, media_type |-> r.media_type, contexts |-> r.contexts,
   pref |-> r.pref, label |-> r.label]

(* impl From<Resource> for Calendar *)
Calendar_from(r) ==
  LET kind == IF r.kind = None THEN None
              ELSE Some(CalendarKind_from(r.kind[1]))
  IN  IF kind # None /\ kind[1] = InvalidCalendarKind THEN Panic
      ELSE [kind |-> kind, uri |-> r.uri, media_type |-> r.media_type,
            contexts |-> r.contexts, pref |-> r.pref, label |-> r.label]

(* Calendar::new(uri): uri, and the rest of Resource::default().into() *)
Calendar_new(uri) == [Calendar_from(Resource_default) EXCEPT !.uri = uri]

(* the URI strings of the inputs *)
Uris == {"", "my_uri", "webcal://calendar.example.com/calA.ics", "my uri/#"}

(* the Resources a conversion is given: Resource::new(u), and resources   *)
(* with fields set                                                        *)
Resources ==
  {Resource_new(u) : u \in Uris}
  \cup [kind : {None, Some("calendar"), Some("freeBusy"), Some("photo")},
        uri : Uris, media_type : {None, Some("text/calendar")},
        contexts : {None, Some(Lit.work :> TRUE)},
        pref : {None, Some(1)}, label : {None, Some("Calendar A")}]

InitResource ==
  /\ this = EmptyCard
  /\ pc = "idle"
  /\ language = None
  /\ card = None
  /\ remaining = {}
  /\ result = None
  /\ adds = 0
  /\ resource \in {None} \cup {Some(r) : r \in Resources}
  /\ calendar = None

(* let calendar: Calendar = resource.into() *)
resource_into_calendar ==
  /\ resource # None
  /\ calendar = None
  /\ calendar' = Some(Calendar_from(resource[1]))
  /\ UNCHANGED <<this, pc, language, card, remaining, result, adds, resource>>

(* Calendar::new(uri) *)
calendar_new ==
  /\ resource = None
  /\ calendar = None
  /\ \E u \in Uris : calendar' = Some(Calendar_new(u))
  /\ UNCHANGED <<this, pc, language, card, remaining, result, adds, resource>>

NextResource ==
  \/ resource_into_calendar
  \/ calendar_new

SpecResource == InitResource /\ [][NextResource]_vars

(* C21: the Calendar converted from Resource::new(u) equals               *)
(* Calendar::new(u): its uri is u and its kind, mediaType, contexts, pref *)
(* and label are absent.                                                  *)
C21_ResourceIntoCalendar ==
  \A u \in Uris :
    (resource = Some(Resource_new(u)) /\ calendar # None)
    => (/\ calendar[1] = Calendar_new(u)
        /\ calendar[1] = [kind |-> None, uri |-> u, media_type |-> None,
                          contexts |-> None, pref |-> None, label |-> None])

(* Resource::new("my_uri") converted, as in test_resource_to_calendar *)
C21_Witness ==
  /\ resource = Some(Resource_new("my_uri"))
  /\ calendar # None
  /\ calendar[1].uri = "my_uri"
  /\ calendar[1] = Calendar_new("my_uri")

(* C22: an iteration on an entry with path addresses/k and a value that   *)
(* deserializes as an Address, on a card whose addresses have no entry k   *)
(* (or that has no addresses), goes on with the address stored under k.    *)
C22_AddressEntryInserted ==
  [][\A key \in remaining : \A k \in EntryKeys :
       (/\ Visits(key)
        /\ key = Path(<<Lit.addresses, k>>)
        /\ from_value(TAddress, CallDocument[key]) # None
        /\ k \notin DOMAIN EntriesOf(card[1].addresses))
       => (/\ pc' = "loop"
           /\ card' # None
           /\ card'[1].addresses # None
           /\ k \in DOMAIN card'[1].addresses[1]
           /\ card'[1].addresses[1][k] =
                from_value(TAddress, CallDocument[key])[1])]_vars

(* C23: an iteration on name/full, name/phoneticSystem,                   *)
(* name/phoneticScript or the whole list name/components, with a value of  *)
(* the field's type, on a card that has no name, goes on with a name whose *)
(* addressed field is the override and whose other fields are absent.      *)
C23_LazyDefaultName ==
  [][\A key \in remaining :
       \A leaf \in NameLeaves \cup {[json |-> Lit.components,
                                     field |-> "components",
                                     ty |-> TVec(TNameComponent)]} :
         (/\ Visits(key)
          /\ card[1].name = None
          /\ key = Path(<<Lit.name, leaf.json>>)
          /\ from_value(leaf.ty, CallDocument[key]) # None)
         => (/\ pc' = "loop"
             /\ card' # None
             /\ card'[1].name # None
             /\ card'[1].name[1] =
                  [Name_default EXCEPT
                     ![leaf.field] = from_value(leaf.ty, CallDocument[key])])]_vars

(* C24: an iteration on name/components/i, with a value that deserializes *)
(* as a name component, on a card whose name has more than i components,   *)
(* goes on with component i equal to the value and the other components    *)
(* unchanged.                                                              *)
C24_WholeNameComponent ==
  [][\A key \in remaining : \A i \in 0..MaxIdx :
       (/\ Visits(key)
        /\ key = Path(<<Lit.name, Lit.components, Decimal(i)>>)
        /\ from_value(TNameComponent, CallDocument[key]) # None
        /\ card[1].name # None
        /\ Len(ElementsOf(card[1].name[1].components)) > i)
       => (/\ pc' = "loop"
           /\ card' # None
           /\ card'[1].name # None
           /\ card'[1].name[1].components # None
           /\ Len(card'[1].name[1].components[1]) =
                Len(card[1].name[1].components[1])
           /\ card'[1].name[1].components[1][i + 1] =
                from_value(TNameComponent, CallDocument[key])[1]
           /\ \A j \in DOMAIN card[1].name[1].components[1] \ {i + 1} :
                card'[1].name[1].components[1][j] =
                  card[1].name[1].components[1][j])]_vars

(* C25: whatever the key k of an entry of the card's titles, a call whose  *)
(* document is the one entry titles/k/name with a string value succeeds    *)
(* with the name of title k equal to the string, and a call whose document *)
(* is the one entry titles/k with a title value succeeds with title k      *)
(* equal to the value.                                                     *)
C25_ArbitraryEntryKeys ==
  \A k \in DOMAIN EntriesOf(this.titles) :
    /\ (/\ pc = "done"
        /\ HasDocument
        /\ DOMAIN CallDocument = {Path(<<Lit.titles, k, Lit.name>>)}
        /\ from_value(TString,
                      CallDocument[Path(<<Lit.titles, k, Lit.name>>)]) # None)
       => (/\ result[1].ok
           /\ result[1].card.titles[1][k].name =
                from_value(TString,
                           CallDocument[Path(<<Lit.titles, k, Lit.name>>)])[1])
    /\ (/\ pc = "done"
        /\ HasDocument
        /\ DOMAIN CallDocument = {Path(<<Lit.titles, k>>)}
        /\ from_value(TTitle, CallDocument[Path(<<Lit.titles, k>>)]) # None)
       => (/\ result[1].ok
           /\ result[1].card.titles[1][k] =
                from_value(TTitle, CallDocument[Path(<<Lit.titles, k>>)])[1])

(* C26: an iteration on an entry that addresses an optional leaf          *)
(* (name/full, name/phoneticSystem, name/phoneticScript, titles/k/kind,    *)
(* addresses/k/full, countryCode, coordinates, timeZone, contexts, the     *)
(* phonetic of a name or address component, notes/k/created) of an         *)
(* existing name, entry or component, with a value that does not           *)
(* deserialize as the field's type, does not fail: the call goes on with   *)
(* the field unset, whatever the card had there.                           *)
C26_MalformedOptionalLeaf ==
  [][\A key \in remaining :
       /\ \A leaf \in NameLeaves :
            (/\ Visits(key)
             /\ key = Path(<<Lit.name, leaf.json>>)
             /\ from_value(leaf.ty, CallDocument[key]) = None)
            => (/\ pc' = "loop"
                /\ card'[1].name # None
                /\ card'[1].name[1][leaf.field] = None)
       /\ \A leaf \in
              {[path |-> Lit.titles, prop |-> "titles", json |-> Lit.kind,
                field |-> "kind", ty |-> TEnum(TitleKind)],
               [path |-> Lit.notes, prop |-> "notes", json |-> Lit.created,
                field |-> "created", ty |-> TString],
               [path |-> Lit.addresses, prop |-> "addresses", json |-> Lit.full,
                field |-> "full", ty |-> TString],
               [path |-> Lit.addresses, prop |-> "addresses",
                json |-> Lit.countryCode, field |-> "country_code",
                ty |-> TString],
               [path |-> Lit.addresses, prop |-> "addresses",
                json |-> Lit.coordinates, field |-> "coordinates",
                ty |-> TString],
               [path |-> Lit.addresses, prop |-> "addresses",
                json |-> Lit.timeZone, field |-> "time_zone", ty |-> TString],
               [path |-> Lit.addresses, prop |-> "addresses",
                json |-> Lit.contexts, field |-> "contexts",
                ty |-> TEnumMap(AddressContext, TBool)]} :
            \A k \in EntryKeys :
              (/\ Visits(key)
               /\ k \in DOMAIN EntriesOf(card[1][leaf.prop])
               /\ key = Path(<<leaf.path, k, leaf.json>>)
               /\ from_value(leaf.ty, CallDocument[key]) = None)
              => (/\ pc' = "loop"
                  /\ card'[1][leaf.prop] # None
                  /\ card'[1][leaf.prop][1][k][leaf.field] = None
                  /\ \A f \in DOMAIN card[1][leaf.prop][1][k] \ {leaf.field} :
                       card'[1][leaf.prop][1][k][f] =
                         card[1][leaf.prop][1][k][f])
       /\ \A i \in 0..MaxIdx :
            /\ (/\ Visits(key)
                /\ key = Path(<<Lit.name, Lit.components, Decimal(i),
                                Lit.phonetic>>)
                /\ from_value(TString, CallDocument[key]) = None
                /\ card[1].name # None
                /\ Len(ElementsOf(card[1].name[1].components)) > i)
               => (/\ pc' = "loop"
                   /\ card'[1].name[1].components[1][i + 1].phonetic = None)
            /\ \A k \in EntryKeys :
                 (/\ Visits(key)
                  /\ k \in DOMAIN EntriesOf(card[1].addresses)
                  /\ key = Path(<<Lit.addresses, k, Lit.components, Decimal(i),
                                  Lit.phonetic>>)
                  /\ from_value(TString, CallDocument[key]) = None)
                 => (/\ pc' = "loop"
                     /\ card'[1].addresses[1][k].components[1][i + 1].phonetic
                          = None)]_vars

(* a number for notes/k1/created: the call succeeded and the note, created *)
(* in the card, has no created in the result                               *)
C26_Witness ==
  /\ ResolvedSingle(Path(<<Lit.notes, Key.k1, Lit.created>>), Val.num)
  /\ this.notes # None
  /\ this.notes[1][Key.k1].created # None
  /\ result[1].card.notes[1][Key.k1].created = None
  /\ result[1].card.notes[1][Key.k1].note = this.notes[1][Key.k1].note

(* C27: when the card has no entry k in a map property P (titles,         *)
(* nicknames, personalInfo, notes) and the document is the two entries P/k *)
(* and P/k/<field>, both with values of their types, the call succeeds or  *)
(* fails as the application of the two entries in one fixed order does,    *)
(* whatever order the loop took.                                           *)
C27_EntryThenFieldAnyOrder ==
  \A p \in EntryProperties : \A k \in EntryKeys :
    \A leaf \in {l \in EntryLeaves : l.prop = p.field} :
      (/\ pc = "done"
       /\ HasDocument
       /\ k \notin DOMAIN EntriesOf(this[p.field])
       /\ DOMAIN CallDocument =
            {Path(<<p.path, k>>), Path(<<p.path, k, leaf.json>>)}
       /\ from_value(p.ty, CallDocument[Path(<<p.path, k>>)]) # None
       /\ from_value(leaf.ty, CallDocument[Path(<<p.path, k, leaf.json>>)])
            # None)
      => result[1].ok =
           apply_in_order(this, CallDocument, DOMAIN CallDocument).ok

(* C28: when no path of the document has, as its first segment, the name  *)
(* of a localized property, the call succeeds and every property of the    *)
(* returned card, name and notes included, equals the caller's.            *)
C28_ForeignPathsIgnored ==
  (/\ pc = "done"
   /\ HasDocument
   /\ \A key \in DOMAIN CallDocument :
        split_first(key) \notin {p.path : p \in WholeProperties}
                                \cup {p.path : p \in ResourceProperties})
  => (/\ result[1].ok
      /\ \A f \in DOMAIN this \ {"localizations", "language"} :
           result[1].card[f] = this[f])

(* lines 266-284 as a function: the Results the loop can return when it   *)
(* applies the entries under keys to the scratch card c, one Result for    *)
(* each order in which the HashMap may yield them                          *)
RECURSIVE get_localized_results(_, _, _)
get_localized_results(c, document, keys) ==
  IF keys = {} THEN {loop_end(c)}
  ELSE UNION {LET r == dispatch(c, key, document[key])
              IN  IF r.err # None THEN {ResultErr(r.err[1])}
                  ELSE get_localized_results(r.card, document, keys \ {key})
              : key \in keys}

(* C29: when a call that found a document succeeded with the card R1, a   *)
(* call on R1 for the same language can succeed with a card equal to R1:   *)
(* R1 still holds the document, and applying its entries to R1 gives R1    *)
(* in at least one order.                                                  *)
C29_Idempotent ==
  (pc = "done" /\ HasDocument /\ result[1].ok)
  => LET R1 == result[1].card
         again == localized_lang(R1, language[1])
     IN  IF again = None THEN early_return(R1, language[1]) = ResultOk(R1)
         ELSE ResultOk(R1)
                \in get_localized_results(scratch_card(R1, language[1]),
                                          again[1], DOMAIN again[1])

(* C30: when a call that found a document succeeds, the returned card     *)
(* has the caller's value in every field that is not a localized property  *)
(* and in every localized property whose name is the first segment of no   *)
(* path of the document.                                                   *)
C30_Frame ==
  (pc = "done" /\ HasDocument /\ result[1].ok)
  => LET touched == {split_first(key) : key \in DOMAIN CallDocument}
         localized == {<<p.path, p.field>> : p \in WholeProperties}
                      \cup {<<p.path, p.field>> : p \in ResourceProperties}
     IN  \A f \in DOMAIN this \ {"localizations", "language"} :
           (\A p \in localized : p[2] = f => p[1] \notin touched)
           => result[1].card[f] = this[f]

=============================================================================
